---------------------------- MODULE Spec2Model ----------------------------
(* Device connectivity subsystem of monitor-de-audio:                      *)
(*   - ReconnectWatchdog        (src/server/reconnect-watchdog.ts)         *)
(*   - MatrixClient             (src/server/matrix-client.ts)              *)
(*   - server wiring, mixer API (src/server/_core/index.ts, routers)       *)
(* Objects are records, methods are operators from record to record, so    *)
(* that a handler calling several methods is the composition of them.      *)
EXTENDS Integers, Sequences, FiniteSets, TLC

VARIABLES
    wd,        \* the ReconnectWatchdog instance, with its timers and awaits
    k,         \* history: attempts handled as failed since the last start()
    prevMs,    \* history: currentIntervalMs before the last handler ran
    mon,       \* history: what followed the last reconnection by the watchdog
    mc,        \* a MatrixClient instance, with its sockets and timers
    cmds,      \* history: the commands sendRaw was called with, and their fate
    calls,     \* history: the reconnect() calls awaited, by attempt number, and
               \* the one that settled in the last step, with its outcome
    clients,   \* the server: every MatrixClient instance created so far
    sys,       \* the server: the singleton in use, and the history of its use
    conv,      \* history: the calls of levelToDb and dbToLevel, with their results
    scan       \* one call of scanNetwork, with its probes and its results

vars == <<wd, k, prevMs, mon, calls, mc, cmds, clients, sys, conv, scan>>
libVars == <<conv, scan>>
wdHist == <<k, prevMs, mon, calls>>
wdVars == <<wd, k, prevMs, mon, calls>>
mcVars == <<mc, cmds>>
sysVars == <<clients, sys>>

NULL == "null"
NoDate == <<>>

\* reconnectFn / isConnectedFn before configure(): null. Once configured they
\* are the closures over a MatrixClient, named by the number of the instance.
NoFn == 0

\* The instance startServer and initWebSocketServer got from getMatrixClient()
\* and registered their listeners on. Nothing registers an "error" listener.
STARTUP == 1

\* ------------------------------------------------------------------------
\* Bounds of the model
\* ------------------------------------------------------------------------
MaxAttempts == 4    \* attempts counted before the model stops starting more
MaxTimers == 2      \* retry timers pending at the same time
MaxInflight == 2    \* reconnect() invocations awaited at the same time
MaxSocks == 1       \* sockets of one client that can still raise an event
MaxCmds == 2        \* commands sent in one run
MaxClients == 3     \* MatrixClient instances created in one run
MaxSteps == 2       \* dB arguments: quarter-dB steps taken on each side of -60 and 10
MaxAwaited == 1     \* simulated commands awaiting their answer at the same time
MaxTicks == 2       \* runs of the simulator's VU interval callback in one run
MaxConversions == 2 \* calls of levelToDb and dbToLevel in one run
MaxTargets == 3     \* targets of one scan that are followed, from the first
MaxBatch == 2       \* targets of one batch of a scan
MaxNow == 1         \* steps of the clock during one scan
MaxOverlap == 2     \* sockets of one client alive at the same time, when connect() calls overlap

\* ------------------------------------------------------------------------
\* ReconnectWatchdog
\* ------------------------------------------------------------------------
BASE_INTERVAL_MS == 30000
MAX_INTERVAL_MS == 300000
BACKOFF_MULTIPLIER == 2

WatchdogState == {"idle", "watching", "connecting", "connected", "stopped"}

Min(a, b) == IF a <= b THEN a ELSE b

\* Field initialisers of the class. timers, inflight, emitted and op are the
\* runtime around the object: the setTimeout callbacks not yet run, the
\* reconnectFn() promises _attempt is awaiting, the events emitted by the
\* last handler, and the handler (with the branch it took) that ran last.
\* timers holds the handles of the pending ones. nextAttemptAt holds <<delay>>,
\* the delay that was added to Date.now() and handed to setTimeout, or NoDate;
\* lastAttemptAt holds "Date" once new Date() was stored.
NewWatchdog ==
    [ state |-> "idle",
      attempts |-> 0,
      lastAttemptAt |-> NULL,
      nextAttemptAt |-> NoDate,
      lastError |-> NULL,
      currentIntervalMs |-> BASE_INTERVAL_MS,
      timer |-> 0,
      stopped |-> FALSE,
      reconnectFn |-> NoFn,
      isConnectedFn |-> NoFn,
      timers |-> {},
      inflight |-> 0,
      emitted |-> <<>>,
      op |-> "new" ]

\* Entry of a handler: nothing emitted yet.
Enter(w, name) == [w EXCEPT !.emitted = <<>>, !.op = name]

configure(w, fn) == [w EXCEPT !.reconnectFn = fn, !.isConnectedFn = fn]

\* Mutant: the event is emitted whether the value changes or not.
SetStateAlwaysEmits(w, newState) ==
    [w EXCEPT !.state = newState,
              !.emitted = Append(@, <<"stateChange", newState, w.state>>)]

\* _setState: the event is emitted only when the value changes.
SetState(w, newState) ==
    [w EXCEPT !.state = newState,
              !.emitted = IF w.state # newState
                          THEN Append(@, <<"stateChange", newState, w.state>>)
                          ELSE @]

\* clearTimeout(this.timer): a handle of a timer that already ran, or 0 (no
\* handle), removes nothing.
ClearTimer(w) ==
    IF w.timer # 0
    THEN [w EXCEPT !.timers = @ \ {w.timer}, !.timer = 0]
    ELSE w

FreshTimer(w) == CHOOSE i \in 1..(Cardinality(w.timers) + 1) : i \notin w.timers

\* _scheduleNext: the handle is overwritten, a timer it referred to is not cleared.
ScheduleNext(w) ==
    IF w.stopped
    THEN w
    ELSE LET delay == w.currentIntervalMs IN
         [w EXCEPT !.nextAttemptAt = <<delay>>,
                   !.timer = FreshTimer(w),
                   !.timers = @ \cup {FreshTimer(w)}]

\* Mutant: start() leaves the interval as it is.
StartBodyKeepsInterval(w) ==
    ScheduleNext(SetState([w EXCEPT !.stopped = FALSE], "watching"))

StartBody(w) ==
    ScheduleNext(SetState([w EXCEPT !.stopped = FALSE,
                                    !.currentIntervalMs = BASE_INTERVAL_MS],
                          "watching"))

\* Mutant: start() without the guard on the state.
StartNoStateGuard(w) ==
    IF w.reconnectFn = NoFn \/ w.isConnectedFn = NoFn
    THEN Enter(w, "start:unconfigured")
    ELSE StartBody(Enter(w, "start"))

start(w) ==
    IF w.state \in {"watching", "connecting"}
    THEN Enter(w, "start:running")
    ELSE IF w.reconnectFn = NoFn \/ w.isConnectedFn = NoFn
         THEN Enter(w, "start:unconfigured")
         ELSE StartBody(Enter(w, "start"))

\* Mutant: stop() also takes the interval back to the base.
StopResetsInterval(w) ==
    SetState([ClearTimer([Enter(w, "stop") EXCEPT !.stopped = TRUE])
                 EXCEPT !.nextAttemptAt = NoDate,
                        !.currentIntervalMs = BASE_INTERVAL_MS],
             "stopped")

stop(w) ==
    SetState([ClearTimer([Enter(w, "stop") EXCEPT !.stopped = TRUE])
                 EXCEPT !.nextAttemptAt = NoDate],
             "stopped")

\* The body of onConnected(), also run inside _attempt.
OnConnectedBody(w) ==
    SetState([ClearTimer(w) EXCEPT !.attempts = 0,
                                   !.currentIntervalMs = BASE_INTERVAL_MS,
                                   !.nextAttemptAt = NoDate,
                                   !.lastError = NULL],
             "connected")

onConnected(w) == OnConnectedBody(Enter(w, "onConnected"))

\* Mutant: onDisconnected() without the guard on the state.
OnDisconnectedNoStateGuard(w, reason) ==
    IF w.stopped
    THEN Enter(w, "onDisconnected:stopped")
    ELSE ScheduleNext(SetState(
             [Enter(w, "onDisconnected")
                 EXCEPT !.lastError = IF reason = NULL THEN "Conexao perdida"
                                                       ELSE reason],
             "watching"))

\* reason = NULL is the call without argument.
onDisconnected(w, reason) ==
    IF w.stopped
    THEN Enter(w, "onDisconnected:stopped")
    ELSE IF w.state \in {"connected", "idle"}
         THEN ScheduleNext(SetState(
                  [Enter(w, "onDisconnected")
                      EXCEPT !.lastError = IF reason = NULL THEN "Conexao perdida"
                                                            ELSE reason],
                  "watching"))
         ELSE Enter(w, "onDisconnected:ignored")

\* Mutant: the interval doubles without the cap.
NextIntervalNoCap(ms) == ms * BACKOFF_MULTIPLIER

NextInterval(ms) == Min(ms * BACKOFF_MULTIPLIER, MAX_INTERVAL_MS)

\* Mutant: a failed attempt schedules nothing.
OnAttemptFailedNoRetry(w, reason) ==
    IF w.stopped
    THEN [w EXCEPT !.op = "attemptFailed:stopped"]
    ELSE SetState(
             [w EXCEPT !.op = "attemptFailed",
                       !.lastError = reason,
                       !.emitted = Append(@, <<"failed", w.attempts, reason>>),
                       !.currentIntervalMs = NextInterval(@)],
             "watching")

OnAttemptFailed(w, reason) ==
    IF w.stopped
    THEN [w EXCEPT !.op = "attemptFailed:stopped"]
    ELSE ScheduleNext(SetState(
             [w EXCEPT !.op = "attemptFailed",
                       !.lastError = reason,
                       !.emitted = Append(@, <<"failed", w.attempts, reason>>),
                       !.currentIntervalMs = NextInterval(@)],
             "watching"))

\* Mutant: an attempt that does not count itself.
AttemptBeginNoCount(w0, t, isConn) ==
    LET w == [Enter(w0, "timer") EXCEPT !.timers = @ \ {t}] IN
    IF w.stopped
    THEN [w EXCEPT !.op = "timer:stopped"]
    ELSE IF isConn
         THEN OnConnectedBody([w EXCEPT !.op = "timer:connected"])
         ELSE LET a == SetState([w EXCEPT !.op = "attempt",
                                          !.lastAttemptAt = "Date",
                                          !.nextAttemptAt = NoDate],
                                "connecting") IN
              [a EXCEPT !.emitted = Append(@, <<"attempt", a.attempts>>),
                        !.inflight = @ + 1]

\* _attempt up to its await: the callback of timer t runs. isConn is what
\* isConnectedFn() returns.
AttemptBegin(w0, t, isConn) ==
    LET w == [Enter(w0, "timer") EXCEPT !.timers = @ \ {t}] IN
    IF w.stopped
    THEN [w EXCEPT !.op = "timer:stopped"]
    ELSE IF w.reconnectFn = NoFn \/ w.isConnectedFn = NoFn
         THEN [w EXCEPT !.op = "timer:unconfigured"]
         ELSE IF isConn
              THEN OnConnectedBody([w EXCEPT !.op = "timer:connected"])
              ELSE LET a == SetState([w EXCEPT !.op = "attempt",
                                               !.attempts = @ + 1,
                                               !.lastAttemptAt = "Date",
                                               !.nextAttemptAt = NoDate],
                                     "connecting") IN
                   [a EXCEPT !.emitted = Append(@, <<"attempt", a.attempts>>),
                             !.inflight = @ + 1]

\* Mutant: _attempt without its try/catch: the error of reconnectFn() leaves
\* _attempt as a rejected promise.
AttemptEndNoCatch(w0, result) ==
    LET w == [Enter(w0, "await") EXCEPT !.inflight = @ - 1] IN
    IF result = "true"
    THEN SetState(OnConnectedBody(
                      [w EXCEPT !.op = "reconnected",
                                !.emitted = Append(@, <<"reconnected", w.attempts>>)]),
                  "watching")
    ELSE IF result = "false"
         THEN OnAttemptFailed(w, "Falha na reconexao")
         ELSE [w EXCEPT !.op = "await:rejected"]

\* _attempt after its await: reconnectFn() returned true or false, or threw
\* (result is then the message of the error).
AttemptEnd(w0, result) ==
    LET w == [Enter(w0, "await") EXCEPT !.inflight = @ - 1] IN
    IF result = "true"
    THEN SetState(OnConnectedBody(
                      [w EXCEPT !.op = "reconnected",
                                !.emitted = Append(@, <<"reconnected", w.attempts>>)]),
                  "watching")
    ELSE IF result = "false"
         THEN OnAttemptFailed(w, "Falha na reconexao")
         ELSE OnAttemptFailed(w, result)

\* ------------------------------------------------------------------------
\* MatrixClient
\* ------------------------------------------------------------------------
\* Fields of the class, then the runtime around the object: socks, the
\* sockets it created that can still raise an event, each with the caller
\* awaiting the connect() promise that created it; cmdTimers, the commands
\* whose timeout timer is set and not cleared; simTimers, the commands
\* whose simulated answer waits on its setTimeout; listensError, whether an
\* "error" listener is registered; thrown, whether a handler threw out of the
\* event loop; and what the last handler did: the events it emitted, the
\* command promises it resolved (with the line that resolved each) and
\* rejected, the connect() promises it settled, the payloads it wrote, the
\* API method it ran (call), the command that method gave sendRaw, and what
\* the API methods awaiting a command returned. Numbers of dB are integers,
\* in hundredths of a dB.
EmptyMap == [x \in {} |-> 0]

\* The channels whose simulator entries are modelled.
SimGainKeys == {<<"IN", 1>>, <<"OUT", 1>>}

\* The channels whose simulator VU levels are modelled.
SimVuKeys == {<<"IN", 1>>}

MapGet(m, key, default) == IF key \in DOMAIN m THEN m[key] ELSE default

\* Mutant: a set that writes the value under every key.
MapSetEvery(m, key, v) == [x \in DOMAIN m \cup {key} |-> v]

MapSet(m, key, v) == [x \in DOMAIN m \cup {key} |-> IF x = key THEN v ELSE m[x]]

NoCall == <<"none">>

NewClientFields(cfg, listens) ==
    [ config |-> cfg,
      simulatorVU |-> EmptyMap,
      vuTicks |-> 0,
      simulatorGains |-> EmptyMap,
      simulatorSends |-> EmptyMap,
      simulatorPreset |-> 1,
      call |-> NoCall,
      lastSet |-> EmptyMap,
      command |-> <<>>,
      returned |-> <<>>,
      tcpClient |-> 0,
      udpClient |-> 0,
      connected |-> FALSE,
      reconnectTimer |-> FALSE,
      pendingCommands |-> <<>>,
      socks |-> {},
      cmdTimers |-> {},
      simTimers |-> {},
      listensError |-> listens,
      thrown |-> FALSE,
      emitted |-> <<>>,
      resolved |-> <<>>,
      rejected |-> <<>>,
      promise |-> <<>>,
      written |-> <<>>,
      op |-> "new" ]

ClientEnter(c, name) ==
    [c EXCEPT !.call = NoCall, !.command = <<>>, !.returned = <<>>,
              !.emitted = <<>>, !.resolved = <<>>, !.rejected = <<>>,
              !.promise = <<>>, !.written = <<>>, !.op = name]

Emit(c, ev) == [c EXCEPT !.emitted = Append(@, ev)]

\* initSimulator: the gains and the VU levels of the channels, then the
\* connection state. The mutes it also sets are not modelled. The VU level is
\* the one Math.random() = 0 gives; the specification of the VU levels starts
\* from any level the interval callback can have led to.
initSimulator(c) ==
    Emit([c EXCEPT !.simulatorGains = [key \in SimGainKeys |-> -1000],
                   !.simulatorVU = [key \in SimVuKeys |-> -2000],
                   !.connected = TRUE],
         <<"connected">>)

\* The setInterval callback of initSimulator: every VU level moves by its own
\* (Math.random() - 0.5) * 4 and is kept within -60..0.
VuTick(c, jitter) ==
    [ClientEnter(c, "vuTick")
        EXCEPT !.simulatorVU = [key \in DOMAIN @ |->
                                   IF Min(0, @[key] + jitter[key]) < -6000 THEN -6000
                                   ELSE Min(0, @[key] + jitter[key])],
               !.vuTicks = @ + 1]

\* constructor
NewClient(cfg, listens) ==
    IF cfg.simulatorMode
    THEN initSimulator(NewClientFields(cfg, listens))
    ELSE NewClientFields(cfg, listens)

SockIds(c) == {s.id : s \in c.socks}

FreshSock(c) ==
    CHOOSE i \in 1..(Cardinality(c.socks) + 3) :
        /\ i \notin SockIds(c) \cup {c.tcpClient, c.udpClient}
        /\ \A j \in 1..(i - 1) : j \in SockIds(c) \cup {c.tcpClient, c.udpClient}

SetSock(c, s, st) ==
    [c EXCEPT !.socks = (@ \ {s}) \cup {[s EXCEPT !.st = st]}]

\* resolve() / reject(err) of the promise connect() returned for socket s:
\* only the first call settles it. waiter is "none" once it is settled.
SettleSock(c, s, how) ==
    IF s.waiter = "none"
    THEN c
    ELSE [c EXCEPT !.socks = (@ \ {s}) \cup {[s EXCEPT !.waiter = "none"]},
                   !.promise = Append(@, <<s.waiter, how>>)]

Sock(c, id) == CHOOSE s \in c.socks : s.id = id

\* connect(), called by waiter. In simulator mode the promise is resolved at
\* once; otherwise a socket is created and the handle overwritten.
connect(c, waiter) ==
    IF c.config.simulatorMode
    THEN [Emit([c EXCEPT !.connected = TRUE], <<"connected">>)
             EXCEPT !.promise = Append(@, <<waiter, "resolve">>)]
    ELSE LET id == FreshSock(c)
             s == [id |-> id, kind |-> c.config.protocol, st |-> "connecting",
                   waiter |-> waiter]
         IN IF c.config.protocol = "tcp"
            THEN [c EXCEPT !.tcpClient = id, !.socks = @ \cup {s}]
            ELSE [c EXCEPT !.udpClient = id, !.socks = @ \cup {s}]

scheduleReconnect(c) ==
    IF c.reconnectTimer THEN c ELSE [c EXCEPT !.reconnectTimer = TRUE]

\* The callback of the timer scheduleReconnect set.
ReconnectTimerRuns(c) ==
    connect([ClientEnter(c, "reconnectTimer") EXCEPT !.reconnectTimer = FALSE],
            "internal")

\* The connect callback of a TCP socket, the bind callback of a UDP socket.
SockConnected(c0, s) ==
    LET c == Emit([ClientEnter(c0, "sock:connect") EXCEPT !.connected = TRUE],
                  <<"connected">>)
        r == SettleSock(c, s, "resolve")
    IN SetSock(r, Sock(r, s.id), "open")

\* emit("error", err): EventEmitter throws err when nobody listens.
EmitError(c) ==
    IF c.listensError THEN Emit(c, <<"error">>) ELSE [c EXCEPT !.thrown = TRUE]

\* The "error" handler of a socket. A TCP socket that raised an error raises
\* "close" next; a UDP socket stays as it is.
SockError(c0, s) ==
    IF s.kind = "tcp"
    THEN LET c == EmitError([ClientEnter(c0, "sock:error") EXCEPT !.connected = FALSE])
             e == SetSock(c, s, "errored")
         IN IF c.thrown
            THEN e
            ELSE scheduleReconnect(SettleSock(e, Sock(e, s.id), "reject"))
    ELSE LET c == EmitError(ClientEnter(c0, "sock:error"))
         IN IF c.thrown THEN c ELSE SettleSock(c, s, "reject")

\* The "close" handler of a TCP socket; the socket raises nothing after it.
SockClosed(c0, s) ==
    scheduleReconnect(Emit([ClientEnter(c0, "sock:close")
                               EXCEPT !.connected = FALSE, !.socks = @ \ {s}],
                           <<"disconnected">>))

Without(seq, x) == SelectSeq(seq, LAMBDA y : y # x)

Range(seq) == {seq[i] : i \in 1..Len(seq)}

\* A received line is <<>> when blank after trim(), else <<"VU", channel,
\* number, level>> when it holds a VU reading, else <<text>>.
IsVU(line) == Len(line) = 4 /\ line[1] = "VU"

RECURSIVE ResolveAll(_, _, _)
ResolveAll(pending, line, acc) ==
    IF pending = <<>>
    THEN acc
    ELSE ResolveAll(Tail(pending), line, Append(acc, <<Head(pending), line>>))

\* The body of the loop of handleResponse for line number i of the chunk:
\* pendingCommands.forEach resolves and deletes every entry.
HandleLine(c, line, i) ==
    IF line = <<>>
    THEN c
    ELSE LET e == IF IsVU(line)
                  THEN Emit(c, <<"vu", [channel |-> line[2], channelNumber |-> line[3],
                                        level |-> line[4], peak |-> line[4]]>>)
                  ELSE c
         IN [e EXCEPT !.cmdTimers = @ \ Range(c.pendingCommands),
                      !.resolved = ResolveAll(c.pendingCommands, i, @),
                      !.pendingCommands = <<>>]

RECURSIVE HandleLines(_, _, _)
HandleLines(c, lines, i) ==
    IF i > Len(lines)
    THEN c
    ELSE HandleLines(HandleLine(c, lines[i], i), lines, i + 1)

handleResponse(c, lines) == HandleLines(c, lines, 1)

\* "data" of a TCP socket, "message" of a UDP socket.
SockData(c, lines) == handleResponse(ClientEnter(c, "sock:data"), lines)

Abs(x) == IF x < 0 THEN -x ELSE x

\* Mutant: the clamp without its lower limit.
ClampUpperOnly(dB) == Min(1000, dB)

\* Math.max(-60, Math.min(10, dB))
Clamp(dB) == IF Min(1000, dB) > -6000 THEN Min(1000, dB) ELSE -6000

\* x.toFixed(1): the text of x with one decimal, as its sign and a number of
\* tenths. The nearest tenth is taken, the one further from zero when two are
\* as near, and the sign of x is kept. Exact for the doubles that are
\* multiples of 0.25 and for those parseFloat makes from a one-decimal text.
ToFixed1(x) == [neg |-> x < 0, tenths |-> (Abs(x) + 5) \div 10]

\* parseFloat of a text toFixed(1) made.
ParseFloat(text) == (IF text.neg THEN -1 ELSE 1) * text.tenths * 10

\* A command or a response is the sequence of its words; a number in it is the
\* text toFixed(1) made. simulateResponse matches the command against its
\* patterns in order and gives the client as it leaves it and the response.
simulateResponse(c, command) ==
    CASE command[1] = "GET VU" ->
           [client |-> c,
            response |-> <<"VU", command[2], command[3],
                           ToFixed1(MapGet(c.simulatorVU,
                                           <<command[2], command[3]>>, -4000))>>]
      [] command[1] = "GET GAIN" ->
           [client |-> c,
            response |-> <<"GAIN", command[2], command[3],
                           ToFixed1(MapGet(c.simulatorGains,
                                           <<command[2], command[3]>>, -1000))>>]
      [] command[1] = "SET GAIN" ->
           [client |-> [c EXCEPT !.simulatorGains =
                           MapSet(@, <<command[2], command[3]>>, ParseFloat(command[4]))],
            response |-> <<"OK GAIN", command[2], command[3], command[4]>>]
      [] command[1] = "SET SEND" ->
           [client |-> [c EXCEPT !.simulatorSends =
                           MapSet(@, <<"SEND", command[2], command[3], "OUT", command[4]>>,
                                  ParseFloat(command[5]))],
            response |-> <<"OK SEND", command[2], command[3], command[4], command[5]>>]
      [] command[1] = "GET SEND" ->
           [client |-> c,
            response |-> <<"SEND", command[2], command[3], command[4],
                           ToFixed1(MapGet(c.simulatorSends,
                                           <<"SEND", command[2], command[3], "OUT",
                                             command[4]>>, -1000))>>]
      [] command[1] = "GET PRESET" ->
           [client |-> c, response |-> <<"PRESET", c.simulatorPreset>>]
      [] OTHER -> [client |-> c, response |-> <<"OK">>]

\* sendRaw(command) for the promise cmdId. The key `${Date.now()}-${Math.random()}`
\* is taken to be new.
sendRaw(c0, cmdId, command) ==
    LET c == [ClientEnter(c0, "sendRaw") EXCEPT !.command = command] IN
    IF c.config.simulatorMode
    THEN LET r == simulateResponse(c, command) IN
         [r.client EXCEPT !.simTimers = @ \cup {[id |-> cmdId, response |-> r.response,
                                                 api |-> "sendRaw"]},
                          !.op = "sendRaw:simulated"]
    ELSE IF ~c.connected
         THEN [c EXCEPT !.rejected = Append(@, <<cmdId, "Nao conectado ao mixer">>),
                        !.op = "sendRaw:refused"]
         ELSE LET p == [c EXCEPT !.cmdTimers = @ \cup {cmdId},
                                 !.pendingCommands = Append(@, cmdId)] IN
              IF c.config.protocol = "tcp" /\ c.tcpClient # 0
              THEN [p EXCEPT !.written = Append(@, <<c.tcpClient, command>>)]
              ELSE IF c.config.protocol = "udp" /\ c.udpClient # 0
                   THEN [p EXCEPT !.written = Append(@, <<c.udpClient, command>>)]
                   ELSE p

\* Mutant: the timeout rejects the promise and leaves the entry in the map.
CommandTimesOutKeepsEntry(c, cmdId) ==
    [ClientEnter(c, "timeout")
        EXCEPT !.cmdTimers = @ \ {cmdId},
               !.rejected = <<<<cmdId, "Timeout">>>>]

\* The callback of the timer sendRaw set for cmdId.
CommandTimesOut(c, cmdId) ==
    [ClientEnter(c, "timeout")
        EXCEPT !.cmdTimers = @ \ {cmdId},
               !.pendingCommands = Without(@, cmdId),
               !.rejected = <<<<cmdId, "Timeout">>>>]

\* resp.match(/([-\d.]+)\s*$/): the number a response ends with, if any.
EndsWithNumber(response) ==
    response[1] \in {"VU", "GAIN", "OK GAIN", "SEND", "OK SEND"}

\* What the API method awaiting the command returns for the response.
ApiReturn(api, response) ==
    IF api \in {"getGain", "getSend", "getVU"}
    THEN IF EndsWithNumber(response)
         THEN ParseFloat(response[Len(response)])
         ELSE IF response[1] = "PRESET" THEN response[2] * 100 ELSE -6000
    ELSE response

\* The callback of the timer sendRaw set in simulator mode: the promise is
\* resolved and the API method awaiting it returns.
SimulatedAnswer(c, t) ==
    [ClientEnter(c, "simulated")
        EXCEPT !.simTimers = @ \ {t},
               !.resolved = <<<<t.id, t.response>>>>,
               !.returned = <<<<t.id, t.api, ApiReturn(t.api, t.response)>>>>]

\* An API method that awaits sendRaw: the call is noted, and the method is
\* the one that goes on when the command cmdId is answered.
Awaiting(c, cmdId, call) ==
    [c EXCEPT !.call = call,
              !.simTimers = {IF t.id = cmdId THEN [t EXCEPT !.api = call[1]] ELSE t
                             : t \in @}]

setGain(c, cmdId, channel, number, dB) ==
    Awaiting(sendRaw(c, cmdId, <<"SET GAIN", channel, number, ToFixed1(Clamp(dB))>>),
             cmdId, <<"setGain", channel, number, dB>>)

getGain(c, cmdId, channel, number) ==
    Awaiting(sendRaw(c, cmdId, <<"GET GAIN", channel, number>>),
             cmdId, <<"getGain", channel, number>>)

setSend(c, cmdId, srcChannel, srcNumber, busNumber, dB) ==
    Awaiting(sendRaw(c, cmdId, <<"SET SEND", srcChannel, srcNumber, busNumber,
                                 ToFixed1(Clamp(dB))>>),
             cmdId, <<"setSend", srcChannel, srcNumber, busNumber, dB>>)

getSend(c, cmdId, srcChannel, srcNumber, busNumber) ==
    Awaiting(sendRaw(c, cmdId, <<"GET SEND", srcChannel, srcNumber, busNumber>>),
             cmdId, <<"getSend", srcChannel, srcNumber, busNumber>>)

getVU(c, cmdId, channel, number) ==
    Awaiting(sendRaw(c, cmdId, <<"GET VU", channel, number>>),
             cmdId, <<"getVU", channel, number>>)

\* updateConfig(config): the fields given replace those of the configuration.
updateConfig(c, config) ==
    [ClientEnter(c, "updateConfig")
        EXCEPT !.config = [f \in DOMAIN @ |-> IF f \in DOMAIN config THEN config[f]
                                                                     ELSE @[f]]]

\* destroy() of the socket the handle refers to: "close" is still to come.
Destroy(c, id) ==
    IF id \in SockIds(c) THEN SetSock(c, Sock(c, id), "destroyed") ELSE c

\* close() of a UDP socket: nothing listens to its "close".
CloseUdp(c, id) ==
    IF id \in SockIds(c) THEN [c EXCEPT !.socks = @ \ {Sock(c, id)}] ELSE c

disconnect(c0) ==
    LET c == [ClientEnter(c0, "disconnect") EXCEPT !.reconnectTimer = FALSE]
        t == IF c.tcpClient # 0
             THEN [Destroy(c, c.tcpClient) EXCEPT !.tcpClient = 0]
             ELSE c
        u == IF t.udpClient # 0
             THEN [CloseUdp(t, t.udpClient) EXCEPT !.udpClient = 0]
             ELSE t
    IN Emit([u EXCEPT !.connected = FALSE], <<"disconnected">>)

\* ------------------------------------------------------------------------
\* The watchdog alone, driven by any owner and any reconnect function
\* ------------------------------------------------------------------------
Reasons == {NULL, "Evento disconnected do MatrixClient"}
Results == {"true", "false", "ECONNREFUSED"}

WithinBounds(w) ==
    /\ w.attempts <= MaxAttempts
    /\ Cardinality(w.timers) <= MaxTimers
    /\ w.inflight <= MaxInflight

\* History: the number of attempts handled as failed since the last start(),
\* -1 once onConnected() or stop() intervened.
KAfter(w) ==
    CASE w.op = "start" -> 0
      [] w.op = "attemptFailed" -> IF k = -1 THEN -1 ELSE k + 1
      [] w.op \in {"onConnected", "timer:connected", "reconnected", "stop", "new"} -> -1
      [] OTHER -> k

\* History: "reconnected" once the watchdog, not stopped, reconnected by
\* itself; "dropped" once onDisconnected() was called after that; "no" as soon
\* as anything else was called or ran.
MonAfter(w) ==
    CASE w.op = "reconnected" /\ ~w.stopped -> "reconnected"
      [] w.op \in {"onDisconnected", "onDisconnected:ignored", "onDisconnected:stopped"}
           -> IF mon \in {"reconnected", "dropped"} THEN "dropped" ELSE "no"
      [] OTHER -> "no"

\* The history of the calls is kept only in the runs that start with it on.
NoCalls == [on |-> FALSE, open |-> <<>>, no |-> 0, result |-> "none"]

\* The calls are kept in the order of their numbers.
Inserted(seq, n) ==
    LET lo == SelectSeq(seq, LAMBDA x : x <= n)
        hi == SelectSeq(seq, LAMBDA x : x > n)
    IN lo \o <<n>> \o hi

\* History: _attempt awaits reconnectFn() for the attempt it just numbered.
CallsAfter(w) ==
    IF calls.on
    THEN [on |-> TRUE,
          open |-> IF w.op = "attempt" THEN Inserted(calls.open, w.attempts)
                                       ELSE calls.open,
          no |-> 0,
          result |-> "none"]
    ELSE calls

\* History: the i-th awaited reconnectFn() settled with result.
CallsSettled(i, result) ==
    IF calls.on
    THEN [on |-> TRUE,
          open |-> SubSeq(calls.open, 1, i - 1)
                      \o SubSeq(calls.open, i + 1, Len(calls.open)),
          no |-> calls.open[i],
          result |-> result]
    ELSE calls

\* The awaited calls one of which settles: any of them.
Awaited == IF calls.on THEN 1..Len(calls.open) ELSE 1..Min(wd.inflight, 1)

StepCalls(w, c) ==
    /\ WithinBounds(w)
    /\ UNCHANGED mcVars
    /\ UNCHANGED sysVars
    /\ UNCHANGED libVars
    /\ wd' = w
    /\ k' = KAfter(w)
    /\ prevMs' = wd.currentIntervalMs
    /\ mon' = MonAfter(w)
    /\ calls' = c

Step(w) == StepCalls(w, CallsAfter(w))

DEFAULT_CONFIG == [protocol |-> "tcp", simulatorMode |-> FALSE]

InitWatchdog ==
    /\ wd = NewWatchdog
    /\ k = -1
    /\ prevMs = BASE_INTERVAL_MS
    /\ mon = "no"
    /\ calls = NoCalls

\* No conversion called and no scan started.
NoScan == [phase |-> "idle"]
NoLib ==
    /\ conv = <<>>
    /\ scan = NoScan

NoServer ==
    /\ clients = <<>>
    /\ sys = [cur |-> 0, crashed |-> FALSE, manual |-> "none", last |-> 0, sent |-> {}]
    /\ NoLib

Init ==
    /\ InitWatchdog
    /\ mc = NewClient(DEFAULT_CONFIG, FALSE)
    /\ cmds = <<>>
    /\ NoServer

Configure == \E fn \in {STARTUP} : Step(configure(Enter(wd, "configure"), fn))
Start == \E w \in {start(wd)} : Step(w)
Stop == \E w \in {stop(wd)} : Step(w)
OnConnected == \E w \in {onConnected(wd)} : Step(w)
OnDisconnected == \E r \in Reasons : Step(onDisconnected(wd, r))
TimerFires == \E t \in wd.timers : \E c \in BOOLEAN : Step(AttemptBegin(wd, t, c))
ReconnectSettles ==
    \E i \in Awaited : \E r \in Results :
        StepCalls(AttemptEnd(wd, r), CallsSettled(i, r))

Next ==
    \/ Configure
    \/ Start
    \/ Stop
    \/ OnConnected
    \/ OnDisconnected
    \/ TimerFires
    \/ ReconnectSettles

Spec == Init /\ [][Next]_vars

\* The same watchdog, with the history of its reconnect() calls kept.
InitCalls ==
    /\ wd = NewWatchdog
    /\ k = -1
    /\ prevMs = BASE_INTERVAL_MS
    /\ mon = "no"
    /\ calls = [NoCalls EXCEPT !.on = TRUE]
    /\ mc = NewClient(DEFAULT_CONFIG, FALSE)
    /\ cmds = <<>>
    /\ NoServer

SpecCalls == InitCalls /\ [][Next]_vars

\* A timer that was set and not cleared runs: the event loop keeps running.
SpecLive == Spec /\ WF_vars(TimerFires)

\* ------------------------------------------------------------------------
\* One MatrixClient alone, driven by any caller and any device
\* ------------------------------------------------------------------------
Configs == [protocol : {"tcp", "udp"}, simulatorMode : BOOLEAN]
Commands == {<<"GET PRESET">>, <<"GET GAIN", "IN", 1>>}
OkLine == <<"OK">>
VuLine == <<"VU", "IN", 1, -12>>
Chunks == {<<OkLine>>, <<VuLine>>, <<OkLine, VuLine>>, << <<>> >>}

\* History: a promise is settled by the first resolve or reject only.
Fate(c, id, old) ==
    IF old \notin {"pending", "simulating"}
    THEN old
    ELSE IF \E i \in 1..Len(c.resolved) : c.resolved[i][1] = id
         THEN "resolved"
         ELSE IF \E i \in 1..Len(c.rejected) : c.rejected[i][1] = id
              THEN (CHOOSE r \in Range(c.rejected) : r[1] = id)[2]
              ELSE old

CmdsAfter(c) == [i \in 1..Len(cmds) |-> [cmds[i] EXCEPT !.fate = Fate(c, i, @)]]

StepClient(c) ==
    /\ ~mc.thrown
    /\ Cardinality(c.socks) <= MaxSocks
    /\ UNCHANGED wdVars
    /\ UNCHANGED sysVars
    /\ UNCHANGED libVars
    /\ mc' = c
    /\ cmds' = CmdsAfter(c)

InitClient ==
    /\ InitWatchdog
    /\ \E cfg \in Configs : \E l \in BOOLEAN :
          ~cfg.simulatorMode /\ mc = NewClient(cfg, l)
    /\ cmds = <<>>
    /\ NoServer

ClientConnect == \E c \in {connect(ClientEnter(mc, "connect"), "caller")} : StepClient(c)
ClientDisconnect == \E c \in {disconnect(mc)} : StepClient(c)
ClientSockConnected ==
    \E s \in mc.socks : s.st = "connecting" /\ StepClient(SockConnected(mc, s))
ClientSockError ==
    \E s \in mc.socks : s.st \in {"connecting", "open"} /\ StepClient(SockError(mc, s))
ClientSockClosed ==
    \E s \in mc.socks :
        /\ s.kind = "tcp"
        /\ s.st \in {"open", "errored", "destroyed"}
        /\ StepClient(SockClosed(mc, s))
ClientSockData ==
    \E s \in mc.socks : \E lines \in Chunks :
        s.st = "open" /\ StepClient(SockData(mc, lines))
ClientReconnectTimer == mc.reconnectTimer /\ StepClient(ReconnectTimerRuns(mc))
ClientTimeout(id) == id \in mc.cmdTimers /\ StepClient(CommandTimesOut(mc, id))
ClientSimulated == \E t \in mc.simTimers : StepClient(SimulatedAnswer(mc, t))
\* A command refused because the client is not connected leaves nothing
\* behind; the others are recorded, up to MaxCmds of them.
ClientSend ==
    \E command \in Commands :
        LET id == Len(cmds) + 1
            c == sendRaw(mc, id, command)
        IN /\ ~mc.thrown
           /\ UNCHANGED wdVars
           /\ UNCHANGED sysVars
           /\ UNCHANGED libVars
           /\ mc' = c
           /\ IF c.op = "sendRaw:refused"
              THEN cmds' = cmds
              ELSE /\ id <= MaxCmds
                   /\ cmds' = Append(cmds, [fate |-> IF c.op = "sendRaw:simulated"
                                                     THEN "simulating" ELSE "pending"])

NextClient ==
    \/ ClientConnect
    \/ ClientDisconnect
    \/ ClientSockConnected
    \/ ClientSockError
    \/ ClientSockClosed
    \/ ClientSockData
    \/ ClientReconnectTimer
    \/ \E id \in 1..MaxCmds : ClientTimeout(id)
    \/ ClientSend

SpecClient == InitClient /\ [][NextClient]_vars

\* A timer that was set and not cleared runs while the process lives: while
\* command timers are set, one of them runs.
SpecClientLive ==
    SpecClient /\ WF_vars(\E id \in 1..MaxCmds : ClientTimeout(id))

\* ------------------------------------------------------------------------
\* One MatrixClient of any configuration, reconfigured while in use
\* ------------------------------------------------------------------------
\* The Partial<MatrixClientConfig> values given to updateConfig.
PartialConfigs ==
    {[protocol |-> p] : p \in {"tcp", "udp"}}
        \cup {[simulatorMode |-> b] : b \in BOOLEAN}
        \cup Configs

InitClientConfig ==
    /\ InitWatchdog
    /\ \E cfg \in Configs : \E l \in BOOLEAN : mc = NewClient(cfg, l)
    /\ cmds = <<>>
    /\ NoServer

ClientUpdateConfig ==
    \E config \in PartialConfigs : \E c \in {updateConfig(mc, config)} : StepClient(c)

NextClientConfig ==
    \/ ClientConnect
    \/ ClientDisconnect
    \/ ClientSockConnected
    \/ ClientSockError
    \/ ClientSockClosed
    \/ ClientSockData
    \/ ClientReconnectTimer
    \/ \E id \in 1..MaxCmds : ClientTimeout(id)
    \/ ClientSimulated
    \/ ClientSend
    \/ ClientUpdateConfig

SpecClientConfig == InitClientConfig /\ [][NextClientConfig]_vars

\* ------------------------------------------------------------------------
\* The gain methods of a simulator MatrixClient, called with any dB
\* ------------------------------------------------------------------------
\* The dB arguments, in hundredths: multiples of 0.25 dB on both sides of
\* the two limits of the clamp, so below, inside and above the range.
Around(dB) == {dB + 25 * i : i \in (0 - MaxSteps)..MaxSteps}
DbArguments == Around(-6000) \cup Around(1000)

\* The promise of a new command: one that no timer refers to.
NewCmd(c) ==
    CHOOSE i \in 1..(Cardinality(c.simTimers) + 1) : \A t \in c.simTimers : t.id # i

\* getMatrixClient(): new MatrixClient({ simulatorMode: true })
InitGain ==
    /\ InitWatchdog
    /\ mc = NewClient([protocol |-> "tcp", simulatorMode |-> TRUE], FALSE)
    /\ cmds = <<>>
    /\ NoServer

StepGain(c) ==
    /\ Cardinality(c.simTimers) <= MaxAwaited
    /\ UNCHANGED wdVars
    /\ UNCHANGED sysVars
    /\ UNCHANGED libVars
    /\ UNCHANGED cmds
    /\ mc' = c

GainSet ==
    \E dB \in DbArguments : \E c \in {setGain(mc, NewCmd(mc), "IN", 1, dB)} : StepGain(c)
GainGet == \E c \in {getGain(mc, NewCmd(mc), "IN", 1)} : StepGain(c)
SendSet ==
    \E dB \in DbArguments : \E c \in {setSend(mc, NewCmd(mc), "IN", 1, 1, dB)} : StepGain(c)
SendGet == \E c \in {getSend(mc, NewCmd(mc), "IN", 1, 1)} : StepGain(c)
GainAnswered == \E t \in mc.simTimers : StepGain(SimulatedAnswer(mc, t))

NextGain ==
    \/ GainSet
    \/ GainGet
    \/ SendSet
    \/ SendGet
    \/ GainAnswered

SpecGain == InitGain /\ [][NextGain]_vars

\* ------------------------------------------------------------------------
\* The gain methods of a simulator MatrixClient, called for several channels
\* and buses
\* ------------------------------------------------------------------------
\* A dB argument below the range and one inside it with two decimals.
RoundTripDb == {-6025, 975}
GainChannels == {<<"IN", 1>>, <<"OUT", 1>>}
SendTriples == {<<"IN", 1, 1>>, <<"IN", 1, 2>>}

\* The channel, or the channel and bus, an API call names.
CallKey(c) ==
    SubSeq(c.call, 2, IF c.call[1] \in {"setGain", "setSend"} THEN Len(c.call) - 1
                                                                ELSE Len(c.call))

\* History: the dB argument of the last setGain or setSend of each channel
\* and of each channel and bus.
Noted(c) ==
    IF c.call[1] \in {"setGain", "setSend"}
    THEN [c EXCEPT !.lastSet = [x \in DOMAIN @ \cup {CallKey(c)} |->
                                   IF x = CallKey(c) THEN c.call[Len(c.call)] ELSE @[x]]]
    ELSE c

ManyGainSet ==
    \E key \in GainChannels : \E dB \in RoundTripDb :
        \E c \in {Noted(setGain(mc, NewCmd(mc), key[1], key[2], dB))} : StepGain(c)
ManyGainGet ==
    \E key \in GainChannels :
        \E c \in {getGain(mc, NewCmd(mc), key[1], key[2])} : StepGain(c)
ManySendSet ==
    \E key \in SendTriples : \E dB \in RoundTripDb :
        \E c \in {Noted(setSend(mc, NewCmd(mc), key[1], key[2], key[3], dB))} : StepGain(c)
ManySendGet ==
    \E key \in SendTriples :
        \E c \in {getSend(mc, NewCmd(mc), key[1], key[2], key[3])} : StepGain(c)
ManyAnswered == \E t \in mc.simTimers : \E c \in {SimulatedAnswer(mc, t)} : StepGain(c)

NextRoundTrip ==
    \/ ManyGainSet
    \/ ManyGainGet
    \/ ManySendSet
    \/ ManySendGet
    \/ ManyAnswered

SpecRoundTrip == InitGain /\ [][NextRoundTrip]_vars

\* ------------------------------------------------------------------------
\* getVU and getGain of a MatrixClient, simulated or connected to a device
\* ------------------------------------------------------------------------
\* VU levels the interval callback can have led to: its steps are any reals
\* within -2..2, so every level within -60..0 is reached in time.
VuLevels == {-5900, -2000, -100}
\* (Math.random() - 0.5) * 4 for two values of Math.random()
VuJitter == {-200, 150}
VuChannels == {<<"IN", 1>>, <<"STIN", 1>>}
\* Lines of the device: a VU reading, the answer to GET GAIN IN 1, and OK.
DeviceLines ==
    {<<"VU", "IN", 1, ToFixed1(-1200)>>, <<"GAIN", "IN", 1, ToFixed1(500)>>, OkLine}

\* "data" of the socket, and then the API methods whose commands the lines
\* resolved go on: api is the method awaiting each command.
SockDataAwaited(c, lines, api) ==
    LET d == SockData(c, lines) IN
    [d EXCEPT !.returned =
        [j \in 1..Len(d.resolved) |->
            <<d.resolved[j][1], api[d.resolved[j][1]],
              ApiReturn(api[d.resolved[j][1]], lines[d.resolved[j][2]])>>]]

InitVU ==
    /\ InitWatchdog
    /\ \E sim \in BOOLEAN : \E level \in VuLevels :
          mc = IF sim
               THEN [NewClient([protocol |-> "tcp", simulatorMode |-> TRUE], TRUE)
                        EXCEPT !.simulatorVU = [key \in SimVuKeys |-> level]]
               ELSE NewClient([protocol |-> "tcp", simulatorMode |-> FALSE], TRUE)
    /\ cmds = <<>>
    /\ NoServer

\* History: the commands sent to the device, each with the method awaiting it.
StepVU(c, sent) ==
    /\ Cardinality(c.socks) <= MaxSocks
    /\ Cardinality(c.simTimers) <= MaxAwaited
    /\ c.vuTicks <= MaxTicks
    /\ Len(sent) <= MaxCmds
    /\ UNCHANGED wdVars
    /\ UNCHANGED sysVars
    /\ UNCHANGED libVars
    /\ mc' = c
    /\ cmds' = [i \in 1..Len(sent) |-> [sent[i] EXCEPT !.fate = Fate(c, i, @)]]

VuCmd == IF mc.config.simulatorMode THEN NewCmd(mc) ELSE Len(cmds) + 1

SentAfter(c) ==
    IF c.op = "sendRaw" THEN Append(cmds, [fate |-> "pending", api |-> c.call[1]]) ELSE cmds

VuInterval ==
    /\ mc.config.simulatorMode
    /\ \E jitter \in [SimVuKeys -> VuJitter] : \E c \in {VuTick(mc, jitter)} : StepVU(c, cmds)
VuGet ==
    \E key \in VuChannels :
        \E c \in {getVU(mc, VuCmd, key[1], key[2])} : StepVU(c, SentAfter(c))
VuGainGet == \E c \in {getGain(mc, VuCmd, "IN", 1)} : StepVU(c, SentAfter(c))
VuConnect ==
    /\ ~mc.config.simulatorMode
    /\ \E c \in {connect(ClientEnter(mc, "connect"), "caller")} : StepVU(c, cmds)
VuSockConnected ==
    \E s \in mc.socks : s.st = "connecting" /\ StepVU(SockConnected(mc, s), cmds)
VuSockData ==
    \E s \in mc.socks : \E line \in DeviceLines :
        /\ s.st = "open"
        /\ StepVU(SockDataAwaited(mc, <<line>>, [i \in 1..Len(cmds) |-> cmds[i].api]), cmds)
VuTimeout == \E id \in mc.cmdTimers : StepVU(CommandTimesOut(mc, id), cmds)
VuAnswered == \E t \in mc.simTimers : StepVU(SimulatedAnswer(mc, t), cmds)

NextVU ==
    \/ VuInterval
    \/ VuGet
    \/ VuGainGet
    \/ VuConnect
    \/ VuSockConnected
    \/ VuSockData
    \/ VuTimeout
    \/ VuAnswered

SpecVU == InitVU /\ [][NextVU]_vars

\* ------------------------------------------------------------------------
\* levelToDb and dbToLevel, called with any number
\* ------------------------------------------------------------------------
\* A level is an integer number of ten-thousandths, a dB an integer number of
\* hundredths. Math.log10 and Math.pow are tabulated at the arguments used,
\* to that precision.
Log10Db == (5 :> -6602) @@ (20 :> -5398) @@ (1000 :> -2000) @@ (5000 :> -602)
           @@ (7000 :> -310)
Pow10Level == (-5999 :> 10) @@ (-5398 :> 20) @@ (-3000 :> 316) @@ (-2000 :> 1000)
              @@ (-602 :> 5000) @@ (-310 :> 6998) @@ (-1 :> 9988)

levelToDb(level) ==
    IF level <= 0 THEN -6000
    ELSE IF level >= 10000 THEN 0
    ELSE Log10Db[level]

dbToLevel(dB) ==
    IF dB <= -6000 THEN 0
    ELSE IF dB >= 0 THEN 10000
    ELSE Pow10Level[dB]

Levels == {-5000, 0, 10000, 20000} \cup DOMAIN Log10Db
Decibels == {-7000, -6000, 0, 500} \cup DOMAIN Pow10Level

InitConvert ==
    /\ InitWatchdog
    /\ mc = NewClient(DEFAULT_CONFIG, FALSE)
    /\ cmds = <<>>
    /\ NoServer

Converted(call) ==
    /\ conv' = Append(conv, call)
    /\ UNCHANGED <<wdVars, mcVars, sysVars, scan>>

LevelToDb ==
    /\ Len(conv) < MaxConversions
    /\ \E level \in Levels : Converted(<<"levelToDb", level, levelToDb(level)>>)
DbToLevel ==
    /\ Len(conv) < MaxConversions
    /\ \E dB \in Decibels : Converted(<<"dbToLevel", dB, dbToLevel(dB)>>)
\* dbToLevel(levelToDb(level)): the slider position of a level that was sent.
LevelOfDb ==
    /\ conv # <<>>
    /\ Len(conv) < MaxConversions
    /\ conv[Len(conv)][1] = "levelToDb"
    /\ Converted(<<"dbToLevel", conv[Len(conv)][3], dbToLevel(conv[Len(conv)][3])>>)

NextConvert ==
    \/ LevelToDb
    \/ DbToLevel
    \/ LevelOfDb

SpecConvert == InitConvert /\ [][NextConvert]_vars

\* --------------------------------------------------------------------------
\* One real TCP client whose connect() is called while sockets of earlier
\* calls are alive: by its owner, by the reconnect function of the watchdog
\* (matrix.connect()) and by its own reconnect timer. Up to MaxOverlap
\* sockets are alive together.
InitOverlap ==
    /\ InitWatchdog
    /\ mc = NewClient(DEFAULT_CONFIG, TRUE)
    /\ cmds = <<>>
    /\ NoServer

StepOverlap(c) ==
    /\ Cardinality(c.socks) <= MaxOverlap
    /\ mc' = c
    /\ UNCHANGED <<wdVars, cmds, sysVars, libVars>>

OverlapConnect ==
    \E waiter \in {"caller", "watchdog"} :
        \E c \in {connect(ClientEnter(mc, "connect"), waiter)} : StepOverlap(c)
OverlapReconnectTimer ==
    /\ mc.reconnectTimer
    /\ \E c \in {ReconnectTimerRuns(mc)} : StepOverlap(c)
OverlapSockConnected ==
    \E s \in mc.socks : s.st = "connecting" /\ StepOverlap(SockConnected(mc, s))
OverlapSockError ==
    \E s \in mc.socks : s.st \in {"connecting", "open"} /\ StepOverlap(SockError(mc, s))
OverlapSockClosed ==
    \E s \in mc.socks : s.st \in {"open", "errored"} /\ StepOverlap(SockClosed(mc, s))

NextOverlap ==
    \/ OverlapConnect
    \/ OverlapReconnectTimer
    \/ OverlapSockConnected
    \/ OverlapSockError
    \/ OverlapSockClosed

SpecOverlap == InitOverlap /\ [][NextOverlap]_vars

\* --------------------------------------------------------------------------
\* The discovery scanner (network-scanner.ts). A host is the pair of its
\* subnet and its last number, for the text `${subnet}.${number}`; a chunk of
\* a response is the tuple of its characters.

NCTRL_PORTS == <<3000, 8080, 8888, 9000, 10000, 3001, 7000>>

\* Mutant: the hosts numbered with the index, from 0.
getSubnetHostsFromZero(subnet) == [j \in 1..254 |-> <<subnet, j - 1>>]

\* Array.from({ length: 254 }, (_, i) => `${subnet}.${i + 1}`), i from 0.
getSubnetHosts(subnet) == [j \in 1..254 |-> <<subnet, (j - 1) + 1>>]

\* The two loops of scanNetwork: every port of a host, host after host.
TargetsOf(hosts, ports) ==
    [n \in 1..(Len(hosts) * Len(ports)) |->
        [host |-> hosts[((n - 1) \div Len(ports)) + 1],
         port |-> ports[((n - 1) % Len(ports)) + 1]]]

LowerCase == <<"a", "b", "c", "d", "e", "f", "g", "h", "i", "j", "k", "l", "m",
               "n", "o", "p", "q", "r", "s", "t", "u", "v", "w", "x", "y", "z">>
UpperCase == <<"A", "B", "C", "D", "E", "F", "G", "H", "I", "J", "K", "L", "M",
               "N", "O", "P", "Q", "R", "S", "T", "U", "V", "W", "X", "Y", "Z">>

\* data.toUpperCase()
toUpperCase(data) ==
    [i \in 1..Len(data) |->
        IF \E n \in 1..26 : LowerCase[n] = data[i]
        THEN UpperCase[CHOOSE n \in 1..26 : LowerCase[n] = data[i]]
        ELSE data[i]]

\* upper.includes(word)
includes(text, word) ==
    \E i \in 0..(Len(text) - Len(word)) : SubSeq(text, i + 1, i + Len(word)) = word

Keywords ==
    {<<"O", "K">>, <<"M", "A", "T", "R", "I", "X">>, <<"P", "R", "E", "S", "E", "T">>,
     <<"G", "A", "I", "N">>, <<"S", "E", "N", "D">>, <<"M", "U", "T", "E">>,
     <<"N", "C", "T", "R", "L">>, <<"W", "A", "L", "D", "M", "A", "N">>}

\* Mutant: the keywords looked for in the data as received.
isWaldmanAsReceived(data) ==
    \E upper \in {data} : \E word \in Keywords : includes(upper, word)

\* finish() of nctrlProbe: the classification of the data received.
isWaldman(data) ==
    \E upper \in {toUpperCase(data)} : \E word \in Keywords : includes(upper, word)

\* Mutant: the comparison by latency alone.
CompareLatency(a, b) == a.latencyMs - b.latencyMs

\* The comparison function of found.sort.
Compare(a, b) ==
    IF a.isWaldman # b.isWaldman
    THEN IF a.isWaldman THEN -1 ELSE 1
    ELSE a.latencyMs - b.latencyMs

\* The place Array.prototype.sort with Compare gives to entry i of found: the
\* sort is stable, so the entry comes after those that are to come before it
\* and after the earlier ones that compare equal to it.
PlaceOf(found, i) ==
    1 + Cardinality({j \in 1..Len(found) :
                        \/ Compare(found[j], found[i]) < 0
                        \/ Compare(found[j], found[i]) = 0 /\ j < i})

SortFound(found) ==
    [n \in 1..Len(found) |-> found[CHOOSE i \in 1..Len(found) : PlaceOf(found, i) = n]]

\* --------------------------------------------------------------------------
\* scanNetwork up to its list of targets, for the subnets and the ports a
\* caller can give in the options, with the ports or without.

Subnets == {<<10, 0, 0>>, <<192, 168, 2>>}
PortLists ==
    {<<>>} \cup {<<p>> : p \in Range(NCTRL_PORTS)}
           \cup {<<p, q>> : p, q \in Range(NCTRL_PORTS)}

\* options.ports ?? NCTRL_PORTS
PortsOf(options) == IF "ports" \in DOMAIN options THEN options.ports ELSE NCTRL_PORTS

ScanOptions(subnets, lists) ==
    [subnet : subnets] \cup [subnet : subnets, ports : lists]

TargetsListed ==
    /\ scan.phase = "idle"
    /\ \E options \in ScanOptions(Subnets, PortLists) :
          scan' = [phase |-> "targets", subnet |-> options.subnet,
                   ports |-> PortsOf(options),
                   hosts |-> getSubnetHosts(options.subnet),
                   targets |-> TargetsOf(getSubnetHosts(options.subnet), PortsOf(options))]
    /\ UNCHANGED <<wdVars, mcVars, sysVars, conv>>

InitScan ==
    /\ InitWatchdog
    /\ mc = NewClient(DEFAULT_CONFIG, FALSE)
    /\ cmds = <<>>
    /\ NoServer

NextTargets == TargetsListed

SpecTargets == InitScan /\ [][NextTargets]_vars

\* --------------------------------------------------------------------------
\* One call of scanNetwork, followed on the first MaxTargets targets of its
\* list, in batches of MaxBatch (for CONCURRENCY). The targets of a batch
\* note their t0 together, when the batch starts: elapsed is Date.now() - t0
\* for them, in steps up to MaxNow, and only a target that is connecting has
\* a use for it. Each target is "waiting" for its batch, then
\* "connecting" (the socket of tcpConnect), then "closed" (no connection) or
\* "probing" (the socket of nctrlProbe connecting), "asked" (GET PRESET
\* written) and "found".

ScanSubnets == {<<10, 0, 0>>}
ScanPorts == {<<3000, 8080>>}
ScanChunks == {<<"o", "k">>, <<"E", "R", "R">>}

InBatch(s, i) == s.batch <= i /\ i < s.batch + MaxBatch /\ i <= Len(s.targets)

\* The loop of runConcurrent from the batch that starts at target i, and the
\* rest of scanNetwork after the last batch; each target of a batch notes
\* its t0 and calls tcpConnect.
BatchFrom(s, i) ==
    IF i > Len(s.targets)
    THEN [s EXCEPT !.phase = "done", !.batch = i, !.result = SortFound(s.found)]
    ELSE [s EXCEPT !.batch = i,
                   !.elapsed = 0,
                   !.st = [n \in 1..Len(s.targets) |->
                              IF i <= n /\ n < i + MaxBatch THEN "connecting" ELSE @[n]]]

\* Mutant: the next batch as soon as one target of this one has returned.
ReturnedFirst(s) ==
    IF \E n \in 1..Len(s.targets) : InBatch(s, n) /\ s.st[n] \in {"closed", "found"}
    THEN BatchFrom(s, s.batch + MaxBatch)
    ELSE s

\* Promise.all of the batch: the next batch once every target of this one
\* has returned.
Returned(s) ==
    IF \A n \in 1..Len(s.targets) : InBatch(s, n) => s.st[n] \in {"closed", "found"}
    THEN BatchFrom(s, s.batch + MaxBatch)
    ELSE s

scanNetwork(options) ==
    LET targets == TargetsOf(getSubnetHosts(options.subnet), PortsOf(options))
        followed == SubSeq(targets, 1, Min(MaxTargets, Len(targets)))
    IN BatchFrom([phase |-> "running", targets |-> followed, total |-> Len(targets),
                  batch |-> 1, elapsed |-> 0, scanned |-> 0,
                  st |-> [n \in 1..Len(followed) |-> "waiting"],
                  latencyMs |-> [n \in 1..Len(followed) |-> 0],
                  open |-> {}, found |-> <<>>, result |-> <<>>], 1)

\* Mutant: the function of a target going on to the probe whatever
\* tcpConnect gave.
ConnectEndedProbing(s, i, open) ==
    [s EXCEPT !.scanned = @ + 1,
              !.open = IF open THEN @ \cup {i} ELSE @,
              !.latencyMs[i] = s.elapsed,
              !.st[i] = "probing"]

\* finish(result) of tcpConnect for target i and what the function of the
\* target does next: it counts the target, returns if there was no
\* connection, and else notes the latency and calls nctrlProbe. open is the
\* history of the targets that connected.
ConnectEnded(s, i, open) ==
    IF open
    THEN [s EXCEPT !.scanned = @ + 1,
                   !.open = @ \cup {i},
                   !.latencyMs[i] = s.elapsed,
                   !.st[i] = "probing"]
    ELSE [s EXCEPT !.scanned = @ + 1, !.st[i] = "closed"]

\* finish() of nctrlProbe for target i with the data received, and the push
\* of the result.
ProbeEnded(s, i, data) ==
    [s EXCEPT !.st[i] = "found",
              !.found = Append(@, [host |-> s.targets[i].host,
                                   port |-> s.targets[i].port,
                                   isWaldman |-> isWaldman(data),
                                   data |-> data,
                                   latencyMs |-> s.latencyMs[i]])]

ScanStep(s) ==
    /\ scan' = s
    /\ UNCHANGED <<wdVars, mcVars, sysVars, conv>>

Running(i) == scan.phase = "running" /\ i \in 1..Len(scan.targets)

ScanStart ==
    /\ scan.phase = "idle"
    /\ \E options \in [subnet : ScanSubnets, ports : ScanPorts] :
          ScanStep(scanNetwork(options))
\* Date.now() moves on.
ScanTime ==
    /\ scan.phase = "running"
    /\ \E i \in 1..Len(scan.targets) : scan.st[i] = "connecting"
    /\ scan.elapsed < MaxNow
    /\ ScanStep([scan EXCEPT !.elapsed = @ + 1])
\* "connect" of the socket of tcpConnect.
ScanConnected(i) ==
    /\ Running(i)
    /\ scan.st[i] = "connecting"
    /\ \E s \in {ConnectEnded(scan, i, TRUE)} : ScanStep(Returned(s))
\* "timeout" or "error" of the socket of tcpConnect.
ScanConnectFailed(i) ==
    /\ Running(i)
    /\ scan.st[i] = "connecting"
    /\ \E s \in {ConnectEnded(scan, i, FALSE)} : ScanStep(Returned(s))
\* "connect" of the socket of nctrlProbe: the probe is written.
ProbeConnected(i) ==
    /\ Running(i)
    /\ scan.st[i] = "probing"
    /\ ScanStep([scan EXCEPT !.st[i] = "asked"])
\* "data": the first chunk of the response.
ProbeData(i) ==
    /\ Running(i)
    /\ scan.st[i] = "asked"
    /\ \E chunk \in ScanChunks : \E s \in {ProbeEnded(scan, i, chunk)} : ScanStep(Returned(s))
\* "timeout", "error" or "close" of the socket of nctrlProbe, before any data.
ProbeSilent(i) ==
    /\ Running(i)
    /\ scan.st[i] \in {"probing", "asked"}
    /\ \E s \in {ProbeEnded(scan, i, <<>>)} : ScanStep(Returned(s))

NextScan ==
    \/ ScanStart
    \/ ScanTime
    \/ \E i \in 1..MaxTargets : ScanConnected(i)
    \/ \E i \in 1..MaxTargets : ScanConnectFailed(i)
    \/ \E i \in 1..MaxTargets : ProbeConnected(i)
    \/ \E i \in 1..MaxTargets : ProbeData(i)
    \/ \E i \in 1..MaxTargets : ProbeSilent(i)

SpecScan == InitScan /\ [][NextScan]_vars

\* The timers of the sockets (CONNECT_TIMEOUT_MS, PROBE_TIMEOUT_MS) run out
\* when nothing else ends a connection or a probe.
SpecScanLive ==
    /\ SpecScan
    /\ WF_vars(\E i \in 1..MaxTargets : ScanConnectFailed(i) \/ ProbeSilent(i))

\* ------------------------------------------------------------------------
\* The server: startServer's wiring and the mixer procedures
\* ------------------------------------------------------------------------
WatchdogReason == "Evento disconnected do MatrixClient"

\* The subscribers of the WebSocket server: one whose channel is open, one
\* whose channel is closing.
Subscribers == {[id |-> 1, readyState |-> "OPEN"], [id |-> 2, readyState |-> "CLOSING"]}

\* broadcast(msg): sendToClient for every subscriber, which sends on an open
\* channel only.
broadcast(msg) == {<<sub.id, msg>> : sub \in {x \in Subscribers : x.readyState = "OPEN"}}

\* The message a listener of initWebSocketServer makes of an event of the
\* client.
MessageOf(c, e) ==
    IF e[1] = "vu"
    THEN <<"vu_update", e[2]>>
    ELSE <<"connection_status", e[1] = "connected", c.config.simulatorMode>>

\* The listeners of "vu", "connected" and "disconnected" that
\* initWebSocketServer registered, run for the events instance i emitted in
\* the last handler: they are on the startup instance.
WsListeners(i, c) ==
    IF i = STARTUP
    THEN UNION {broadcast(MessageOf(c, e)) :
                  e \in {x \in Range(c.emitted) : x[1] \in {"vu", "connected", "disconnected"}}}
    ELSE {}

\* startServer's listener of "disconnected", run for each such event the
\* startup instance emitted in the last handler.
IndexOnDisconnected(w, i, c) ==
    IF i = STARTUP /\ <<"disconnected">> \in Range(c.emitted) /\ ~c.config.simulatorMode
    THEN onDisconnected(w, WatchdogReason)
    ELSE w

\* mixer.connect after its await of client.connect().
MixerConnectResumes(w, c) ==
    IF ~c.config.simulatorMode /\ c.connected THEN onConnected(w) ELSE w

\* What follows a settled connect() promise: the procedure or the watchdog
\* closure that awaited it goes on. The closure returns client.isConnected(),
\* or false when connect() rejected.
Resume(w, c) ==
    IF <<"mixer", "resolve">> \in Range(c.promise)
    THEN MixerConnectResumes(w, c)
    ELSE IF <<"watchdog", "resolve">> \in Range(c.promise)
         THEN AttemptEnd(w, IF c.connected THEN "true" ELSE "false")
         ELSE IF <<"watchdog", "reject">> \in Range(c.promise)
              THEN AttemptEnd(w, "false")
              ELSE w

\* History of the use of the singleton: "connected" once mixer.connect ended
\* with onConnected() for the instance in use, "lost" in the state that
\* follows the "close" of its socket, "none" after anything else.
ManualAfter(i, c, w) ==
    IF /\ i = sys.cur /\ <<"mixer", "resolve">> \in Range(c.promise)
       /\ w.op = "onConnected"
    THEN "connected"
    ELSE IF /\ i = sys.cur /\ c.op = "sock:close" /\ sys.manual = "connected"
            /\ ~c.config.simulatorMode
         THEN "lost"
         ELSE IF c.op \in {"sock:connect", "sock:close", "reconnectTimer"}
                   /\ sys.manual = "connected" /\ i # sys.cur
              THEN "connected"
              ELSE "none"

\* A handler of instance i ran and left it as c; the listeners and awaiting
\* callers ran after it. cap bounds the sockets an instance has at a time.
StepServerWithin(i, c, cap) ==
    LET w == Resume(IndexOnDisconnected(wd, i, c), c) IN
    /\ ~sys.crashed
    /\ Cardinality(c.socks) <= cap
    /\ WithinBounds(w)
    /\ UNCHANGED mcVars
    /\ UNCHANGED wdHist
    /\ UNCHANGED libVars
    /\ clients' = [clients EXCEPT ![i] = c]
    /\ wd' = w
    /\ sys' = [sys EXCEPT !.crashed = c.thrown, !.manual = ManualAfter(i, c, w),
                           !.last = i, !.sent = WsListeners(i, c)]

StepServer(i, c) == StepServerWithin(i, c, MaxSocks)

\* The state startServer leaves: the simulator instance, connected, the
\* watchdog configured with it.
InitServer ==
    /\ NoLib
    /\ k = -1
    /\ prevMs = BASE_INTERVAL_MS
    /\ mon = "no"
    /\ calls = NoCalls
    /\ mc = NewClient(DEFAULT_CONFIG, FALSE)
    /\ cmds = <<>>
    /\ clients = <<connect(NewClient([protocol |-> "tcp", simulatorMode |-> TRUE], FALSE),
                            "startup")>>
    /\ wd = configure(NewWatchdog, STARTUP)
    /\ sys = [cur |-> STARTUP, crashed |-> FALSE, manual |-> "none",
              last |-> 0, sent |-> {}]

\* mixer.connect up to its await: stop(), resetMatrixClient (disconnect() of
\* the instance in use, then a new one), configure(), client.connect().
MixerConnectTo(cfg) ==
    LET old == disconnect(clients[sys.cur])
            n == Len(clients) + 1
            new == connect(ClientEnter(NewClient(cfg, FALSE), "connect"), "mixer")
            w == Resume(configure(IndexOnDisconnected(stop(wd), sys.cur, old), n), new)
        IN /\ ~sys.crashed
           /\ n <= MaxClients
           /\ UNCHANGED mcVars
           /\ UNCHANGED wdHist
           /\ UNCHANGED libVars
           /\ clients' = Append([clients EXCEPT ![sys.cur] = old], new)
           /\ wd' = w
           /\ sys' = [sys EXCEPT !.cur = n, !.manual = "none", !.last = n,
                                  !.sent = WsListeners(sys.cur, old) \cup WsListeners(n, new)]

MixerConnect ==
    /\ ~sys.crashed
    /\ \E cfg \in Configs : MixerConnectTo(cfg)

MixerDisconnect ==
    \E c \in {disconnect(clients[sys.cur])} :
        /\ ~sys.crashed
        /\ UNCHANGED mcVars
        /\ UNCHANGED wdHist
        /\ UNCHANGED libVars
        /\ clients' = [clients EXCEPT ![sys.cur] = c]
        /\ wd' = IndexOnDisconnected(stop(wd), sys.cur, c)
        /\ sys' = [sys EXCEPT !.manual = "none", !.last = sys.cur,
                               !.sent = WsListeners(sys.cur, c)]

WatchdogCall(w) ==
    /\ ~sys.crashed
    /\ WithinBounds(w)
    /\ UNCHANGED mcVars
    /\ UNCHANGED wdHist
    /\ UNCHANGED libVars
    /\ UNCHANGED clients
    /\ wd' = w
    /\ sys' = [sys EXCEPT !.manual = "none", !.last = 0, !.sent = {}]

MixerWatchdogStart ==
    \E w \in {IF ~clients[sys.cur].config.simulatorMode
               THEN start(wd)
               ELSE Enter(wd, "watchdogStart:simulator")} : WatchdogCall(w)

MixerWatchdogStop == \E w \in {stop(wd)} : WatchdogCall(w)

ServerSockConnected ==
    \E i \in 1..Len(clients) : \E s \in clients[i].socks :
        s.st = "connecting" /\ StepServer(i, SockConnected(clients[i], s))

ServerSockError ==
    \E i \in 1..Len(clients) : \E s \in clients[i].socks :
        s.st \in {"connecting", "open"} /\ StepServer(i, SockError(clients[i], s))

ServerSockClosed ==
    \E i \in 1..Len(clients) : \E s \in clients[i].socks :
        /\ s.kind = "tcp"
        /\ s.st \in {"open", "errored", "destroyed"}
        /\ StepServer(i, SockClosed(clients[i], s))

\* A chunk with one VU reading arrives on an open socket.
ServerSockData ==
    \E i \in 1..Len(clients) : \E s \in clients[i].socks :
        s.st = "open" /\ StepServer(i, SockData(clients[i], <<VuLine>>))

ServerReconnectTimer ==
    \E i \in 1..Len(clients) :
        clients[i].reconnectTimer /\ StepServer(i, ReconnectTimerRuns(clients[i]))

\* The retry timer of the watchdog runs _attempt with the closures
\* configure() was last given: isConnected() reads the instance, reconnect()
\* calls its connect().
WatchdogTimerWithin(cap) ==
    \E t \in wd.timers :
        LET i == wd.isConnectedFn
            a == AttemptBegin(wd, t, clients[i].connected)
            c == IF a.op = "attempt"
                 THEN connect(ClientEnter(clients[i], "connect"), "watchdog")
                 ELSE ClientEnter(clients[i], "none")
            w == Resume(a, c)
        IN /\ ~sys.crashed
           /\ Cardinality(c.socks) <= cap
           /\ WithinBounds(w)
           /\ UNCHANGED mcVars
           /\ UNCHANGED wdHist
           /\ UNCHANGED libVars
           /\ clients' = [clients EXCEPT ![i] = c]
           /\ wd' = w
           /\ sys' = [sys EXCEPT !.manual = IF @ = "lost" THEN "none" ELSE @,
                                  !.last = i, !.sent = WsListeners(i, c)]

ServerWatchdogTimer ==
    /\ wd.timers # {}
    /\ WatchdogTimerWithin(MaxSocks)

NextServer ==
    \/ MixerConnect
    \/ MixerDisconnect
    \/ MixerWatchdogStart
    \/ MixerWatchdogStop
    \/ ServerSockConnected
    \/ ServerSockError
    \/ ServerSockClosed
    \/ ServerSockData
    \/ ServerReconnectTimer
    \/ ServerWatchdogTimer

SpecServer == InitServer /\ [][NextServer]_vars

\* The server while an instance may have an earlier socket beside its latest
\* one: mixer.connect from the simulator to a tcp mixer and back,
\* watchdogStart, the "connect" and "close" of the sockets and the two kinds
\* of timer.
TcpConfigs == {cfg \in Configs : cfg.protocol = "tcp"}

HandoverConnect ==
    /\ ~sys.crashed
    /\ \E cfg \in TcpConfigs :
          /\ cfg.simulatorMode # clients[sys.cur].config.simulatorMode
          /\ MixerConnectTo(cfg)

HandoverSockConnected ==
    \E i \in 1..Len(clients) : \E s \in clients[i].socks :
        s.st = "connecting" /\ StepServerWithin(i, SockConnected(clients[i], s), MaxOverlap)

HandoverSockClosed ==
    \E i \in 1..Len(clients) : \E s \in clients[i].socks :
        /\ s.st \in {"open", "errored", "destroyed"}
        /\ StepServerWithin(i, SockClosed(clients[i], s), MaxOverlap)

HandoverReconnectTimer ==
    \E i \in 1..Len(clients) :
        clients[i].reconnectTimer
          /\ StepServerWithin(i, ReconnectTimerRuns(clients[i]), MaxOverlap)

HandoverWatchdogTimer ==
    /\ wd.timers # {}
    /\ WatchdogTimerWithin(MaxOverlap)

NextHandover ==
    \/ HandoverConnect
    \/ MixerWatchdogStart
    \/ HandoverSockConnected
    \/ HandoverSockClosed
    \/ HandoverReconnectTimer
    \/ HandoverWatchdogTimer

SpecHandover == InitServer /\ [][NextHandover]_vars

\* ------------------------------------------------------------------------
\* Claims about the watchdog
\* ------------------------------------------------------------------------
HandlerRan(names) == wd.op \in names

\* The handlers and branches that run the body of onConnected().
ViaOnConnected == {"onConnected", "reconnected", "timer:connected"}

\* C3: in every reachable state at most one retry timer is pending.
C3_AtMostOneTimer == Cardinality(wd.timers) <= 1

\* C4: in every reachable state at most one reconnect() invocation started
\* by the watchdog is awaited.
C4_AtMostOneReconnect == wd.inflight <= 1

\* C6: once the watchdog (not stopped) reconnected by itself and nobody called
\* start() or stop() since, a call of onDisconnected() leaves a retry under
\* way: a retry timer is pending or a reconnect() is awaited.
C6_DropAfterReconnectRetries ==
    (mon = "dropped" /\ HandlerRan({"onDisconnected", "onDisconnected:ignored"}))
        => (wd.timers # {} \/ wd.inflight > 0)

\* C7: while the watchdog is not stopped, every attempt handled as failed is
\* followed by the start of another attempt, unless the connection came back
\* (a run of onConnected()) or stop() was called first. Checked for attempts
\* that leave room under MaxAttempts.
C7_RetriesUntilReconnected ==
    [](  (wd.op = "attemptFailed" /\ wd.attempts < MaxAttempts)
      => <>(wd.op = "attempt" \/ wd.stopped \/ HandlerRan(ViaOnConnected)))

C7_Witness ==
    /\ wd.op = "attempt"
    /\ k >= 2
    /\ wd.lastError = "ECONNREFUSED"
    /\ ~wd.stopped

RECURSIVE Pow(_, _)
Pow(b, n) == IF n = 0 THEN 1 ELSE b * Pow(b, n - 1)

\* C8: after k attempts failed since start(), with no onConnected(), start()
\* or stop() in between, intervalMs = min(30000 * 2^k, 300000); intervalMs is
\* always within 30000..300000.
C8_Backoff ==
    /\ k >= 0 => wd.currentIntervalMs = Min(30000 * Pow(2, k), 300000)
    /\ wd.currentIntervalMs >= 30000
    /\ wd.currentIntervalMs <= 300000

C8_Witness ==
    /\ k = 4
    /\ wd.currentIntervalMs = 300000
    /\ prevMs = 240000
    /\ wd.op = "attemptFailed"

\* C9 as claimed: intervalMs is lowered by nothing but a successful
\* reconnection, that is by a run of onConnected().
C9_OnlyReconnectionResets ==
    wd.currentIntervalMs < prevMs => HandlerRan(ViaOnConnected)

\* C9 as amended: intervalMs is lowered only by a run of onConnected() or by a
\* start() that passes its guards, and then to the base interval; the start
\* of an attempt and a failed attempt never lower it.
C9_OnlyReconnectionOrStartResets ==
    /\ wd.currentIntervalMs < prevMs =>
          /\ HandlerRan(ViaOnConnected \cup {"start"})
          /\ wd.currentIntervalMs = BASE_INTERVAL_MS
    /\ HandlerRan({"attempt", "attemptFailed", "attemptFailed:stopped",
                   "timer:stopped", "timer:unconfigured"})
          => wd.currentIntervalMs >= prevMs

C9_Witness ==
    /\ wd.op = "start"
    /\ prevMs = MAX_INTERVAL_MS
    /\ wd.currentIntervalMs = BASE_INTERVAL_MS

\* C10: a call of onConnected() leaves state = connected, attempts = 0,
\* intervalMs = 30000, lastError = null, nextAttemptAt = null and no retry
\* timer pending.
C10_OnConnectedResets ==
    wd.op = "onConnected" =>
        /\ wd.state = "connected"
        /\ wd.attempts = 0
        /\ wd.currentIntervalMs = 30000
        /\ wd.lastError = NULL
        /\ wd.nextAttemptAt = NoDate
        /\ wd.timers = {}

StartOps == {"start", "start:running", "start:unconfigured"}
TimerOps == {"attempt", "timer:connected", "timer:stopped", "timer:unconfigured"}
DisconnectedOps == {"onDisconnected", "onDisconnected:stopped", "onDisconnected:ignored"}

Configured(w) == w.reconnectFn # NoFn /\ w.isConnectedFn # NoFn

\* The handler that ran in this step set exactly one new timer and kept its
\* handle; the timers that were pending still are.
SetOneTimer ==
    /\ wd'.timer \notin wd.timers
    /\ wd'.timers = wd.timers \cup {wd'.timer}

StateChanges(w) == SelectSeq(w.emitted, LAMBDA e : e[1] = "stateChange")

\* C11: a start() called in state watching or connecting changes none of
\* state, intervalMs, attempts, nextAttemptAt, lastError, the timer handle
\* and the pending timers, and emits nothing.
C11_StartWhileRunningIsNoOp ==
    [][(wd'.op \in StartOps /\ wd.state \in {"watching", "connecting"}) =>
          /\ wd'.state = wd.state
          /\ wd'.currentIntervalMs = wd.currentIntervalMs
          /\ wd'.attempts = wd.attempts
          /\ wd'.nextAttemptAt = wd.nextAttemptAt
          /\ wd'.lastError = wd.lastError
          /\ wd'.timer = wd.timer
          /\ wd'.timers = wd.timers
          /\ wd'.emitted = <<>>]_vars

C11_Witness ==
    /\ wd.op = "start:running"
    /\ wd.state = "connecting"
    /\ wd.inflight = 1
    /\ wd.currentIntervalMs = 60000

C13_StopCancelsAndIsIdempotent ==
    wd.op = "stop" =>
        /\ wd.state = "stopped"
        /\ wd.nextAttemptAt = NoDate
        /\ wd.timers = {}
        /\ Len(wd.emitted) <= 1
        /\ \A e \in Range(wd.emitted) :
              e[1] = "stateChange" /\ e[2] = "stopped" /\ e[3] # "stopped"

RECURSIVE Chain(_, _, _)
Chain(prev, events, final) ==
    IF events = <<>>
    THEN prev = final
    ELSE /\ Head(events)[3] = prev
         /\ Head(events)[2] # prev
         /\ Chain(Head(events)[2], Tail(events), final)

\* C14: the stateChange events a handler emits are exactly the changes of
\* value of state it made, in order: each names the state just before as
\* previousState and a different newState, the last newState is the state
\* the handler leaves, and a handler that emits none leaves the state as it was.
C14_StateChangeOnEveryTransition ==
    [][Chain(wd.state, StateChanges(wd'), wd'.state)]_vars

C14_Witness ==
    /\ wd.op = "reconnected"
    /\ StateChanges(wd) = <<<<"stateChange", "connected", "connecting">>,
                             <<"stateChange", "watching", "connected">>>>

C16_ReconnectedOnlyOnSuccess ==
    \A e \in Range(wd.emitted) :
        e[1] = "reconnected" => (calls.result = "true" /\ e[2] = calls.no)

FailureMessage(result) == IF result = "false" THEN "Falha na reconexao" ELSE result

\* The effect of a failure that was handled: the message is in lastError, the
\* interval is doubled up to the cap, the state is watching and the next
\* attempt is scheduled for that interval.
FailureAbsorbed(result) ==
    /\ wd.op = "attemptFailed"
    /\ wd.lastError = FailureMessage(result)
    /\ wd.currentIntervalMs = Min(prevMs * 2, 300000)
    /\ wd.state = "watching"
    /\ wd.timer \in wd.timers
    /\ wd.nextAttemptAt = <<wd.currentIntervalMs>>

C1_LineResolvesOnlyOldest ==
    \A i, j \in 1..Len(mc.resolved) :
        (i # j /\ mc.resolved[i][2] = mc.resolved[j][2]) => FALSE

Unsettled == {id \in 1..Len(cmds) : cmds[id].fate = "pending"}

\* C2: pendingCommands holds exactly the commands that were sent while
\* connected and are neither resolved nor timed out, each with its timer set;
\* and while the process lives the commands that are unsettled are all
\* settled eventually, each resolved by a line or rejected by its timeout.
C2_SentCommandsSettle ==
    /\ [](/\ Range(mc.pendingCommands) = Unsettled
          /\ mc.cmdTimers = Unsettled
          /\ Len(mc.pendingCommands) = Cardinality(Unsettled))
    /\ [](Unsettled # {} => <>(Unsettled = {} \/ mc.thrown))

C2_Witness ==
    /\ mc.pendingCommands = <<>>
    /\ mc.op = "timeout"
    /\ \E i, j \in 1..Len(cmds) :
          cmds[i].fate = "resolved" /\ cmds[j].fate = "Timeout"

\* The "vu" events the VU readings of a chunk are to give, in their order.
ReadingsOf(lines) ==
    [i \in 1..Len(SelectSeq(lines, IsVU)) |->
        <<"vu", [channel |-> SelectSeq(lines, IsVU)[i][2],
                 channelNumber |-> SelectSeq(lines, IsVU)[i][3],
                 level |-> SelectSeq(lines, IsVU)[i][4],
                 peak |-> SelectSeq(lines, IsVU)[i][4]]>>]

OnlyReadings(lines) == \A i \in 1..Len(lines) : lines[i] = <<>> \/ IsVU(lines[i])

\* C24: whenever the "data" handler runs for a chunk, it emits one "vu" event
\* for each VU reading of the chunk, with its channel, number and level, and
\* nothing else, whatever is pending; and a chunk of VU readings alone (no
\* VU command is sent here, so they are unsolicited) leaves pendingCommands
\* as it was.
C24_TelemetryLeavesCommandsAlone ==
    [][\A lines \in Chunks :
          (mc'.op = "sock:data" /\ mc' = SockData(mc, lines)) =>
              /\ mc'.emitted = ReadingsOf(lines)
              /\ OnlyReadings(lines) => mc'.pendingCommands = mc.pendingCommands]_vars

\* C19: in every state in which the configuration has simulatorMode = true,
\* the client holds no TCP and no UDP socket and the handler that just ran
\* wrote no command to a socket.
C19_SimulatedHoldsNoSocket ==
    mc.config.simulatorMode =>
        /\ mc.tcpClient = 0
        /\ mc.udpClient = 0
        /\ mc.written = <<>>

\* The dB argument of the setter that just ran, the number in the command it
\* sent, and the number the simulator stored for it.
SetterRan == mc.call[1] \in {"setGain", "setSend"}
ArgumentDb == mc.call[Len(mc.call)]
CommandDb == ParseFloat(mc.command[Len(mc.command)])
StoredDb ==
    IF mc.call[1] = "setGain"
    THEN MapGet(mc.simulatorGains, <<mc.call[2], mc.call[3]>>, -1000)
    ELSE MapGet(mc.simulatorSends,
                <<"SEND", mc.call[2], mc.call[3], "OUT", mc.call[4]>>, -1000)

InRange(dB) == dB >= -6000 /\ dB <= 1000

\* The numbers the getters returned in the handler that just ran.
ReadBack == {r[3] : r \in {x \in Range(mc.returned) : x[2] \in {"getGain", "getSend"}}}

\* C20 as claimed: the number in the command setGain or setSend sends, which
\* is the number the simulator stores, is within -60..10 and is the dB
\* argument whenever that is within -60..10; a getter reads back a number
\* within -60..10.
C20_SettersClampAndKeep ==
    /\ SetterRan =>
          /\ InRange(CommandDb)
          /\ StoredDb = CommandDb
          /\ InRange(ArgumentDb) => CommandDb = ArgumentDb
    /\ \A dB \in ReadBack : InRange(dB)

\* C20 as amended: the number sent and stored is the dB argument clamped to
\* -60..10 and then rounded to one decimal, to the nearest tenth and away
\* from zero when two are as near; it is the argument itself when that is
\* within -60..10 and has one decimal at most; a getter reads back a number
\* within -60..10 with one decimal.
C20_SettersClampAndRound ==
    /\ SetterRan =>
          LET limited == IF ArgumentDb < -6000 THEN -6000
                         ELSE IF ArgumentDb > 1000 THEN 1000 ELSE ArgumentDb
          IN /\ InRange(CommandDb)
             /\ StoredDb = CommandDb
             /\ CommandDb % 10 = 0
             /\ Abs(CommandDb - limited) <= 5
             /\ Abs(CommandDb - limited) = 5 => Abs(CommandDb) > Abs(limited)
    /\ \A dB \in ReadBack : InRange(dB) /\ dB % 10 = 0

C20_Witness ==
    /\ -5980 \in ReadBack
    /\ MapGet(mc.simulatorGains, <<"IN", 1>>, -1000) = -5980
    /\ MapGet(mc.simulatorSends, <<"SEND", "IN", 1, "OUT", 1>>, -1000) = 1000

\* The getter that just ran and the command it awaits; the answer that just
\* came and the command it answers.
GetterCalled == mc'.call[1] \in {"getGain", "getSend"}
Asked == mc'.simTimers \ mc.simTimers
AnswerCame == mc'.op = "simulated"
Answered == mc.simTimers \ mc'.simTimers

Limited(dB) == IF dB < -6000 THEN -6000 ELSE IF dB > 1000 THEN 1000 ELSE dB

\* To the nearest tenth of a dB, away from zero when two are as near.
Tenth(dB) == (IF dB < 0 THEN -1 ELSE 1) * ((Abs(dB) + 5) \div 10) * 10

\* What a getter is to read for the channel, or the channel and bus, of its
\* call: the last value set for it as the setter keeps it, -10 when none was.
ToRead(kept(_)) ==
    IF CallKey(mc') \in DOMAIN mc.lastSet THEN kept(mc.lastSet[CallKey(mc')]) ELSE -1000

\* The getter returns, when its command is answered, what was to be read
\* when it was called.
Reads(kept(_)) ==
    /\ GetterCalled =>
          /\ Asked # {}
          /\ \A t \in Asked : ApiReturn(t.api, t.response) = ToRead(kept)
    /\ AnswerCame =>
          /\ Answered # {}
          /\ \A t \in Answered :
                mc'.returned = <<<<t.id, t.api, ApiReturn(t.api, t.response)>>>>

KeptClamped(dB) == Limited(dB)
KeptRounded(dB) == Tenth(Limited(dB))

\* C21 as claimed: in simulator mode getGain returns clamp(x, -60, 10) for
\* the x of the last setGain of the same channel and number, and getSend the
\* clamped x of the last setSend of the same channel, number and bus, whatever
\* was set for other channels and buses in between.
C21_GetReturnsClampedSet == [][Reads(KeptClamped)]_vars

\* C21 as amended: the getters return that clamped x rounded to one decimal.
C21_GetReturnsRoundedSet == [][Reads(KeptRounded)]_vars

\* C22: every VU level the simulator keeps is within -60..0, and every
\* number getVU returns, from the simulator or from a device, is within
\* -60..0.
C22_VuWithinRange ==
    /\ \A key \in DOMAIN mc.simulatorVU :
          mc.simulatorVU[key] >= -6000 /\ mc.simulatorVU[key] <= 0
    /\ \A r \in Range(mc.returned) : r[2] = "getVU" => r[3] >= -6000 /\ r[3] <= 0

\* C23: levelToDb gives a dB within -60..0, -60 for a level of 0 or less and
\* 0 for a level of 1 or more; dbToLevel gives a level within 0..1, 0 for -60
\* dB or less and 1 for 0 dB or more; and dbToLevel(levelToDb(x)) is x to
\* within 0.001 for x within 0..1.
C23_ConversionsClampAndInvert ==
    \A i \in 1..Len(conv) :
        /\ conv[i][1] = "levelToDb" =>
              /\ conv[i][3] >= -6000 /\ conv[i][3] <= 0
              /\ conv[i][2] <= 0 => conv[i][3] = -6000
              /\ conv[i][2] >= 10000 => conv[i][3] = 0
        /\ conv[i][1] = "dbToLevel" =>
              /\ conv[i][3] >= 0 /\ conv[i][3] <= 10000
              /\ conv[i][2] <= -6000 => conv[i][3] = 0
              /\ conv[i][2] >= 0 => conv[i][3] = 10000
        /\ (/\ i > 1
            /\ conv[i][1] = "dbToLevel" /\ conv[i - 1][1] = "levelToDb"
            /\ conv[i][2] = conv[i - 1][3]
            /\ conv[i - 1][2] >= 0 /\ conv[i - 1][2] <= 10000)
           => Abs(conv[i][3] - conv[i - 1][2]) <= 10

C21_Witness ==
    /\ <<"OUT", 1>> \in DOMAIN mc.lastSet
    /\ <<"IN", 1, 2>> \in DOMAIN mc.lastSet
    /\ MapGet(mc.lastSet, <<"IN", 1>>, 0) = -6025
    /\ MapGet(mc.lastSet, <<"IN", 1, 1>>, 0) = 975
    /\ \E r \in Range(mc.returned) : r[2] = "getSend" /\ r[3] = 980

\* ------------------------------------------------------------------------
\* Claims about the server
\* ------------------------------------------------------------------------
\* C5: after mixer.connect to a real console ended with onConnected(), the
\* loss of that connection (the "close" of the socket of the instance in
\* use), with no mixer procedure called in between, leaves the watchdog
\* watching or connecting.
C5_LossActivatesWatchdog ==
    sys.manual = "lost" => wd.state \in {"watching", "connecting"}

\* C25: in the list a scan returns, every result with isWaldman comes before
\* every result without it, and of two results of the same group the earlier
\* has the latency that is not the larger, in whatever order the probes ended.
C25_WaldmanFirstThenLatency ==
    scan.phase = "done" =>
        \A i, j \in 1..Len(scan.result) :
            i < j =>
                /\ scan.result[j].isWaldman => scan.result[i].isWaldman
                /\ scan.result[i].isWaldman = scan.result[j].isWaldman
                       => scan.result[i].latencyMs <= scan.result[j].latencyMs

\* A scan that returned three results, of both groups and of different
\* latencies in one group, in another order than their probes ended.
C25_Witness ==
    /\ scan.phase = "done"
    /\ Len(scan.result) = 3
    /\ scan.result # scan.found
    /\ scan.result[1].isWaldman /\ scan.result[2].isWaldman /\ ~scan.result[3].isWaldman
    /\ scan.result[1].latencyMs < scan.result[2].latencyMs
    /\ scan.found[1] = scan.result[3]

ResultsFor(target) ==
    {i \in 1..Len(scan.result) :
        scan.result[i].host = target.host /\ scan.result[i].port = target.port}

\* C26: a scan that was started ends, with a list returned (no rejection),
\* and the list has one result for each target whose connection was made and
\* none for a target whose connection timed out or failed.
C26_ScanEndsWithTheOpenTargets ==
    /\ [](scan.phase = "done" =>
            \A n \in 1..Len(scan.targets) :
                Cardinality(ResultsFor(scan.targets[n])) = IF n \in scan.open THEN 1 ELSE 0)
    /\ (scan.phase = "running" ~> scan.phase = "done")

\* A scan of three targets that ended with two of them connected and one not.
C26_Witness ==
    /\ scan.phase = "done"
    /\ Len(scan.targets) = 3
    /\ scan.scanned = 3
    /\ Cardinality(scan.open) = 2
    /\ Len(scan.result) = 2
    /\ \E n \in 1..3 : scan.st[n] = "closed"

\* The character as toUpperCase gives it.
Folded(ch) == toUpperCase(<<ch>>)[1]

HasKeyword(data) ==
    \E word \in Keywords : \E at \in 0..Len(data) :
        /\ at + Len(word) <= Len(data)
        /\ \A n \in 1..Len(word) : Folded(data[at + n]) = word[n]

\* C27: a target that accepted the connection is reported with isWaldman
\* exactly when the first chunk of its response has one of the keywords, in
\* letters of either case; with no response (the probe ended by a timeout, an
\* error or a close) it is reported without it.
C27_WaldmanIffKeyword ==
    scan.phase \in {"running", "done"} =>
        \A i \in 1..Len(scan.found) :
            /\ scan.found[i].isWaldman <=> HasKeyword(scan.found[i].data)
            /\ scan.found[i].data = <<>> => ~scan.found[i].isWaldman
            /\ scan.found[i].data = <<"o", "k">> => scan.found[i].isWaldman
            /\ scan.found[i].data = <<"E", "R", "R">> => ~scan.found[i].isWaldman

\* Three targets reported: one that answered "ok", one that answered "ERR"
\* and one that never answered.
C27_Witness ==
    /\ scan.phase = "done"
    /\ \E i, j, n \in 1..Len(scan.found) :
          /\ scan.found[i].data = <<"o", "k">> /\ scan.found[i].isWaldman
          /\ scan.found[j].data = <<"E", "R", "R">> /\ ~scan.found[j].isWaldman
          /\ scan.found[n].data = <<>> /\ ~scan.found[n].isWaldman

\* C28: the hosts of a subnet are 254, the subnet with the numbers 1 to 254
\* in this order, each once and none with 0 or 255; and the targets of a scan
\* are each of these hosts with each of the ports, no more.
C28_HostsAndTargets ==
    scan.phase = "targets" =>
        /\ Len(scan.hosts) = 254
        /\ \A j \in 1..254 : scan.hosts[j] = <<scan.subnet, j>>
        /\ \A i, j \in 1..254 : i # j => scan.hosts[i] # scan.hosts[j]
        /\ \A j \in 1..254 : scan.hosts[j][2] \notin {0, 255}
        /\ Len(scan.targets) = 254 * Len(scan.ports)
        /\ \A h \in 1..254 : \A p \in 1..Len(scan.ports) :
              scan.targets[(h - 1) * Len(scan.ports) + p]
                  = [host |-> <<scan.subnet, h>>, port |-> scan.ports[p]]

\* The targets of a scan with the ports left out: 254 hosts, 7 ports.
C28_Witness ==
    /\ scan.phase = "targets"
    /\ scan.ports = NCTRL_PORTS
    /\ Len(scan.targets) = 1778
    /\ scan.targets[1778] = [host |-> <<scan.subnet, 254>>, port |-> 7000]

\* C29: once stop() has left the watchdog stopped, every step that is not a
\* call of start() or of onConnected() leaves the state "stopped" and begins
\* no reconnect() (no "attempt" event, no further invocation awaited), also
\* the step in which a reconnect() invoked before the stop() returns or throws.
C29_StopIsSticky ==
    [][(/\ wd.stopped
        /\ wd.state = "stopped"
        /\ wd'.op \notin {"start", "start:running", "start:unconfigured", "onConnected"})
          => /\ wd'.state = "stopped"
             /\ wd'.inflight <= wd.inflight
             /\ \A e \in Range(wd'.emitted) : e[1] # "attempt"]_vars

\* The client is off: not connected, with no socket connecting or open and
\* no reconnect timer set.
Off(c) ==
    /\ ~c.connected
    /\ ~c.reconnectTimer
    /\ \A s \in c.socks : s.st \notin {"connecting", "open"}

\* C30: disconnect() leaves a real TCP client off, and a client that is off
\* stays off (isConnected() false, no socket opened, no reconnect scheduled)
\* in every step that is not a call of connect(), also the "close" event of
\* the socket disconnect() destroyed.
C30_DisconnectStaysDisconnected ==
    [][(mc.config.protocol = "tcp" /\ ~mc.config.simulatorMode) =>
          /\ mc'.op = "disconnect" => Off(mc')
          /\ (Off(mc) /\ mc'.op # "connect") => Off(mc')]_vars

\* C31: in every reachable state in which the watchdog reports "watching" and
\* has not been stopped, exactly one retry timer is pending and nextAttemptAt
\* is not null.
C31_WatchingHasOneTimer ==
    (wd.state = "watching" /\ ~wd.stopped) =>
        /\ Cardinality(wd.timers) = 1
        /\ wd.nextAttemptAt # NoDate

\* The client is connected exactly when the socket connect() created last,
\* the one its handle names, is open.
LatestIsOpen(c) == \E s \in c.socks : s.id = c.tcpClient /\ s.st = "open"

\* C32: when connect() calls overlap, isConnected() is true exactly when the
\* socket created last is connected, and the "close" or "error" of an older
\* socket leaves the connected flag as it was and emits no "disconnected".
C32_OlderSocketsChangeNothing ==
    [][/\ mc'.connected <=> LatestIsOpen(mc')
       /\ \A s \in mc.socks :
             (s.id # mc.tcpClient /\ mc' \in {SockClosed(mc, s), SockError(mc, s)})
                 => /\ mc'.connected = mc.connected
                    /\ \A e \in Range(mc'.emitted) : e[1] # "disconnected"]_vars

\* The events of a client that the subscribers are to hear of.
Told(c) == {e \in Range(c.emitted) : e[1] \in {"vu", "connected", "disconnected"}}

\* C33: after a handler of the instance in use, every subscriber whose
\* channel is open has been sent a message for each "connected",
\* "disconnected" and "vu" event the handler emitted, also when the instance
\* was installed by a later mixer.connect.
C33_EventsOfCurrentInstanceArePushed ==
    (sys.cur # 0 /\ sys.last = sys.cur) =>
        \A e \in Told(clients[sys.cur]) : \A sub \in Subscribers :
            sub.readyState = "OPEN" =>
                <<sub.id, MessageOf(clients[sys.cur], e)>> \in sys.sent

\* What the claim asks of a step in which a retry timer fired while the
\* client was connected.
GoesConnected ==
    /\ wd'.state = "connected"
    /\ wd'.inflight = wd.inflight
    /\ wd'.attempts <= wd.attempts
    /\ \A e \in Range(wd'.emitted) : e[1] \notin {"attempt", "reconnected"}
    /\ wd'.timers \subseteq wd.timers

\* C34: when a retry timer of a configured watchdog fires and isConnected()
\* is already true, the watchdog goes to "connected" in that step, invokes
\* no reconnect(), does not increment attempts, emits no "attempt" and no
\* "reconnected", and sets no timer.
C34_FiresWhileConnected ==
    [][\A t \in wd.timers :
          (Configured(wd) /\ wd' = AttemptBegin(wd, t, TRUE)) => GoesConnected]_vars

\* C35: the "error" of a TCP socket whose connect() is in progress rejects
\* the promise of that connect(), leaves the client not connected, emits
\* "error" and schedules the internal reconnect, and nothing is thrown out
\* of the handler, with or without a listener of "error".
C35_ConnectErrorIsReported ==
    [][\A s \in mc.socks :
          (s.kind = "tcp" /\ s.st = "connecting" /\ s.waiter # "none"
              /\ mc' = SockError(mc, s))
            => /\ ~mc'.thrown
               /\ <<s.waiter, "reject">> \in Range(mc'.promise)
               /\ ~mc'.connected
               /\ <<"error">> \in Range(mc'.emitted)
               /\ mc'.reconnectTimer]_vars

\* C36: a command given to a client that is not connected is rejected at
\* once with the not-connected error and leaves the client as it was: no
\* pending entry, no timer, nothing written, in simulator mode too.
C36_NotConnectedRefuses ==
    [][\A command \in Commands :
          (~mc.connected /\ mc' = sendRaw(mc, Len(cmds) + 1, command))
            => /\ <<Len(cmds) + 1, "Nao conectado ao mixer">> \in Range(mc'.rejected)
               /\ mc'.pendingCommands = mc.pendingCommands
               /\ mc'.cmdTimers = mc.cmdTimers
               /\ mc'.simTimers = mc.simTimers
               /\ mc'.written = <<>>]_vars

\* The instance getMatrixClient() returns is in simulator mode.
InSimulator == clients[sys.cur].config.simulatorMode

\* This step is a retry timer whose _attempt called reconnect(): connect() of
\* the instance the watchdog was configured with.
ReconnectInvoked ==
    \E t \in wd.timers :
        /\ AttemptBegin(wd, t, clients[wd.isConnectedFn].connected).op = "attempt"
        /\ clients' = [clients EXCEPT ![wd.isConnectedFn] =
                          connect(ClientEnter(@, "connect"), "watchdog")]

\* C37: while the client in use is in simulator mode the watchdog is neither
\* watching nor connecting, and its timer never calls reconnect().
C37_IdleInSimulator ==
    /\ [](InSimulator => wd.state \notin {"watching", "connecting"})
    /\ [][InSimulator => ~ReconnectInvoked]_vars

\* C38: start() on a watchdog that configure() has not supplied with both
\* functions changes nothing and emits nothing, and an unconfigured watchdog
\* is never watching or connecting.
C38_UnconfiguredStaysIdle ==
    /\ [][(~Configured(wd) /\ wd' = start(wd))
            => /\ wd'.state = wd.state
               /\ wd'.currentIntervalMs = wd.currentIntervalMs
               /\ wd'.nextAttemptAt = wd.nextAttemptAt
               /\ wd'.timer = wd.timer
               /\ wd'.timers = wd.timers
               /\ wd'.emitted = <<>>]_vars
    /\ [](~Configured(wd) => wd.state \notin {"watching", "connecting"})

\* The targets whose function is running: tcpConnect or nctrlProbe is
\* outstanding.
Processing(s) == {n \in 1..Len(s.targets) : s.st[n] \in {"connecting", "probing", "asked"}}

Completed(s) == {n \in 1..Len(s.targets) : s.st[n] \in {"closed", "found"}}

\* C39: during a scan at most the batch limit of targets are being
\* processed; a batch starts only after every target of the batches before
\* it has completed, and every target is processed exactly once.
C39_BatchesOfLimit ==
    /\ [](scan.phase = "running" =>
            /\ Cardinality(Processing(scan)) <= MaxBatch
            /\ \A n \in 1..Len(scan.targets) :
                  /\ n < scan.batch => n \in Completed(scan)
                  /\ n >= scan.batch + MaxBatch => scan.st[n] = "waiting"
                  /\ InBatch(scan, n) => scan.st[n] # "waiting"
            /\ scan.scanned = Cardinality({n \in 1..Len(scan.targets) :
                                              scan.st[n] \notin {"waiting", "connecting"}}))
    /\ [](scan.phase = "done" =>
            /\ Completed(scan) = 1..Len(scan.targets)
            /\ scan.scanned = Len(scan.targets))
    /\ [][scan.phase = "running" =>
            \A n \in 1..Len(scan.targets) :
                /\ scan.st[n] \notin {"waiting", "connecting"} => scan'.st[n] # "connecting"
                /\ n \in Completed(scan) => scan'.st[n] = scan.st[n]]_vars

\* The second batch is being processed after the first has completed.
C39_Witness ==
    /\ scan.phase = "running"
    /\ scan.batch = 1 + MaxBatch
    /\ Cardinality(Completed(scan)) = MaxBatch
    /\ Processing(scan) # {}

\* C40: in every state with state = connected the status is reset:
\* attempts 0, interval 30000, no error, no next attempt, no timer pending.
C40_ConnectedIsReset ==
    wd.state = "connected" =>
        /\ wd.attempts = 0
        /\ wd.currentIntervalMs = 30000
        /\ wd.lastError = NULL
        /\ wd.nextAttemptAt = NoDate
        /\ wd.timers = {}

=============================================================================
